---- MODULE Spec2Model ----
(***************************************************************************)
(* AlgoMirror standalone websocket service: the tick handler (price store, *)
(* risk evaluator, exit trigger) of src/websocket_service.py, together     *)
(* with the exit state machine of the order-execution collaborator         *)
(* (app.utils.order_status_poller / strategy_executor), which is not part  *)
(* of the sources at hand and is modelled from its description.            *)
(***************************************************************************)
EXTENDS Integers, Sequences, FiniteSets, TLC

(***************************************************************************)
(* Bounds of the model.                                                    *)
(***************************************************************************)
MaxTime == 15        \* the clock stops advancing here
ClockStep == 5       \* seconds between two observable instants
MaxEvents == 2       \* longest RiskEvent log explored
RetryBudget == 2     \* exit attempts the calling collaborator allows itself
MaxDay == 9          \* last day the calendar clock reaches (day 0 is a Monday)
MaxTransports == 2   \* transports open at the same time
MaxTasks == 2        \* _reconnect threads alive at the same time

(***************************************************************************)
(* Program constants.                                                      *)
(***************************************************************************)
RetrySpacing == 10   \* "Waits 10 seconds before allowing retry"

Null == 0 - 1        \* an unset DATETIME / price column
NoReason == "none"   \* an unset exit_reason

(***************************************************************************)
(* The rows of strategy_executions and strategies the service reads.      *)
(* A threshold of 0 stands for an unconfigured one (None or 0: the code     *)
(* tests `if stop_loss and ...`): strategy 1 has no take_profit, strategy  *)
(* 3 has neither threshold.                                                *)
(***************************************************************************)
Positions == {1, 2, 3}
Symbols == {"NIFTY", "BANKNIFTY"}
Exchanges == {"NFO", "NSE"}
Ltps == {40, 70, 130, 160}
Reasons == {"stop_loss", "take_profit"}

\* Tick messages delivered by the feed; ltp 0 is a message without a price.
Ticks ==
    {[symbol |-> "NIFTY", exchange |-> e, ltp |-> l] : e \in Exchanges, l \in Ltps \cup {0}}
        \cup {[symbol |-> "BANKNIFTY", exchange |-> "NFO", ltp |-> 130]}
\* The ticks explored together with the exit state machine.
ExitTicks == {t \in Ticks : t.symbol = "NIFTY" /\ t.ltp \in {0, 40}}

symbol(p) == IF p = 3 THEN "BANKNIFTY" ELSE "NIFTY"
exchange(p) == IF p = 2 THEN "NSE" ELSE "NFO"
side(p) == IF p = 2 THEN "SELL" ELSE "BUY"
quantity(p) == 5 * 2
entry_price(p) == 10 * 10
strategy_id(p) == p
stop_loss(s) == CASE s = 1 -> 500 [] s = 2 -> 0 - 500 [] OTHER -> 0
take_profit(s) == CASE s = 2 -> 300 [] OTHER -> 0

Abs(x) == IF x < 0 THEN 0 - x ELSE x

VARIABLES
    clock,          \* datetime.now(): seconds since the start of the run
    pos,            \* strategy_executions: Positions -> row
    risk_events,    \* the risk_events table, in insertion order
    latest_prices,  \* self.latest_prices: symbol -> {ltp, timestamp} or Null
    subscriptions,  \* self.subscriptions
    shared_data,    \* the document last written to SHARED_DATA_PATH
    orders,         \* broker: number of live exit orders per position
    last_op         \* the operation that produced the current state

\* Calendar cache (StandaloneWebSocketService.cached_*) and what run() gets from it.
VARIABLES
    cal_now,                  \* datetime.now(self.ist): [day, minute], day 0 a Monday
    db_calendar,              \* trading_sessions, market_holidays, special_trading_sessions
    cached_sessions,          \* self.cached_sessions, in query order
    cached_holidays,          \* self.cached_holidays
    cached_special_sessions,  \* self.cached_special_sessions
    cache_refresh_time,       \* self.cache_refresh_time: [day, minute] or NoTime
    running,                  \* run() is past its first refresh_trading_hours_cache()
    is_trading,               \* run(): is_trading of the current iteration
    wait_seconds              \* run(): get_time_until_market_open() of the current iteration

calVars == <<cal_now, db_calendar, cached_sessions, cached_holidays, cached_special_sessions,
             cache_refresh_time, running, is_trading, wait_seconds>>
\* All of them but is_trading.
calCache == <<cal_now, db_calendar, cached_sessions, cached_holidays, cached_special_sessions,
              cache_refresh_time, running, wait_seconds>>

\* Connection lifecycle (StandaloneWebSocketService.ws, .active, ...) and run()'s locals.
VARIABLES
    ws,                 \* self.ws: the transport held (0 for None)
    transports,         \* per transport: "free", "pending" (auth sent), "ready", "closed"
    authenticated,      \* self.authenticated
    active,             \* self.active
    was_trading_hours,  \* run(): was_trading_hours
    loop_pc,            \* run(): "loop", or "connect" while connect() waits
    tasks,              \* the _reconnect threads: position in delays and "sleep"/"connect"
    backoff,            \* connect() calls of _reconnect since the last successful connect()
    sent,               \* subscribe requests sent on the transport held
    since_refresh       \* run(): current_time - last_refresh, up to refresh_interval

connVars == <<ws, transports, authenticated, active, was_trading_hours, loop_pc, tasks,
              backoff, sent, since_refresh>>

\* Faults injected into tick handling.
VARIABLES
    faults              \* the faults injected so far, in order

\* Startup: the trading_accounts table, the configuration, the process.
VARIABLES
    accounts,           \* trading_accounts, in query order
    ws_url,             \* self.ws_url ("" for None)
    api_key,            \* self.api_key ("" for None)
    proc,               \* "init" before run(), "running", "exited" after main() returned
    exit_status         \* the exit status of the process, Null while it runs

startVars == <<accounts, ws_url, api_key, proc, exit_status>>

\* Shutdown, and the wait of the scheduler loop it interrupts.
VARIABLES
    shutdown,           \* self._shutdown
    remaining           \* run(): remaining, the seconds left of the wait for the next open

stopVars == <<shutdown, remaining>>

\* The mutex and the thread that handles a tick, step by step.
VARIABLES
    lock,               \* self._lock: "none", or the thread that holds it
    tick_pc,            \* the position of the transport thread in _on_message
    tick_msg,           \* the tick it is handling
    data                \* _save_prices: data, with the content of the map when it was built

lockVars == <<lock, tick_pc, tick_msg, data>>

extVars == <<faults, startVars, stopVars, lockVars>>

riskVars == <<clock, pos, risk_events, latest_prices, subscriptions, shared_data, orders>>

vars == <<clock, pos, risk_events, latest_prices, subscriptions, shared_data, orders, last_op,
          calVars, connVars, extVars>>

NoPrice == [ltp |-> Null, timestamp |-> Null]

Op(name, p, sym, ltp) == [op |-> name, p |-> p, symbol |-> sym, ltp |-> ltp]

InitPosition ==
    [status |-> "entered", current_price |-> Null, unrealized_pnl |-> 0,
     exit_reason |-> NoReason, exit_triggered_at |-> Null,
     exit_retry_after |-> Null, exit_attempt_count |-> 0,
     exit_pending_since |-> Null, exit_broker_verified |-> FALSE]

(***************************************************************************)
(* The trading calendar.  A time of day is a number of minutes after       *)
(* midnight, a date is a day number with day 0 a Monday, so that           *)
(* date.weekday() is day % 7.  All dates lie in one calendar year.  The     *)
(* seconds and microseconds of datetime.now() are the field millis, the    *)
(* milliseconds into the minute; the times of the calendar rows are whole  *)
(* minutes.                                                                *)
(***************************************************************************)
MinutesPerDay == 24 * 60
BufferMinutes == 15
FallbackWait == 3600
RefreshHour == 5
RefreshMinutes == 5

HHMM(h, m) == h * 60 + m
NoTime == [day |-> Null, minute |-> Null]
Days == 0..MaxDay
TimesOfDay == {HHMM(5, 0), HHMM(5, 4), HHMM(5, 5), HHMM(8, 59), HHMM(9, 0), HHMM(9, 5),
               HHMM(12, 0), HHMM(15, 30), HHMM(15, 31), HHMM(16, 0), HHMM(18, 0),
               HHMM(19, 16)}
Instants == [day : Days, minute : TimesOfDay, millis : {0}]

Session(d, s, e, a) == [day_of_week |-> d, start_time |-> s, end_time |-> e, is_active |-> a]
Holiday(d, sp) == [holiday_date |-> d, is_special_session |-> sp]
SpecialSession(d, s, e, a) == [session_date |-> d, start_time |-> s, end_time |-> e, is_active |-> a]

\* _set_default_cache: Monday to Friday 09:15-15:30.
DefaultSessions == [i \in 1..5 |-> Session(i - 1, HHMM(9, 15), HHMM(15, 30), TRUE)]

\* Monday-Friday 09:15-15:30 and an inactive Saturday row; Wednesday of the
\* first week is a closing holiday with an evening special session, Thursday
\* a holiday overridden by a special session (is_special_session = true),
\* Monday of the second week a closing holiday.
CalendarNSE ==
    [sessions |-> DefaultSessions \o <<Session(5, HHMM(9, 15), HHMM(15, 30), FALSE)>>,
     holidays |-> {Holiday(2, FALSE), Holiday(3, TRUE), Holiday(7, FALSE)},
     specials |-> {SpecialSession(2, HHMM(18, 15), HHMM(19, 15), TRUE),
                   SpecialSession(5, HHMM(9, 15), HHMM(15, 30), FALSE)}]

\* No active session at all.
CalendarEmpty ==
    [sessions |-> <<Session(0, HHMM(9, 15), HHMM(15, 30), FALSE)>>,
     holidays |-> {},
     specials |-> {}]

\* A single weekly session on Wednesday, whose second occurrence is a closing holiday.
CalendarWeekly ==
    [sessions |-> <<Session(2, HHMM(9, 15), HHMM(15, 30), TRUE)>>,
     holidays |-> {Holiday(9, FALSE)},
     specials |-> {}]

Calendars == {CalendarNSE, CalendarEmpty, CalendarWeekly}

InitRiskVars ==
    /\ clock = 0
    /\ pos = [p \in Positions |-> InitPosition]
    /\ risk_events = <<>>
    /\ latest_prices = [s \in Symbols |-> NoPrice]
    /\ subscriptions = {}
    /\ shared_data = [prices |-> [s \in Symbols |-> NoPrice], updated_at |-> Null,
                      subscriptions |-> {}]
    /\ orders = [p \in Positions |-> 0]
    /\ last_op = Op("init", 0, "", 0)

\* __init__: empty cache, never refreshed.
InitCalVars ==
    /\ cal_now = [day |-> 0, minute |-> HHMM(5, 0), millis |-> 0]
    /\ cached_sessions = <<>>
    /\ cached_holidays = {}
    /\ cached_special_sessions = {}
    /\ cache_refresh_time = NoTime
    /\ running = FALSE
    /\ is_trading = FALSE
    /\ wait_seconds = Null

\* __init__: no transport, not active, not authenticated; run() not yet connected.
IdleTask == [pc |-> "idle", i |-> 0]
InitConnVars ==
    /\ ws = 0
    /\ transports = [t \in 1..MaxTransports |-> "free"]
    /\ authenticated = FALSE
    /\ active = FALSE
    /\ was_trading_hours = FALSE
    /\ loop_pc = "loop"
    /\ tasks = [k \in 1..MaxTasks |-> IdleTask]
    /\ backoff = 0
    /\ sent = {}
    /\ since_refresh = 0

\* An account row; "" stands for a missing (None or empty) value.
Account(primary, url, key) == [is_primary |-> primary, websocket_url |-> url, api_key |-> key]

\* run() has loaded the configuration of a primary account.
InitStartVars ==
    /\ accounts = <<Account(TRUE, "wss", "key")>>
    /\ ws_url = "wss"
    /\ api_key = "key"
    /\ proc = "running"
    /\ exit_status = Null

NoTick == [symbol |-> "", exchange |-> "", ltp |-> 0]
NoData == [prices |-> [s \in Symbols |-> NoPrice], updated_at |-> Null, subscriptions |-> {}]
InitLockVars ==
    /\ lock = "none"
    /\ tick_pc = "idle"
    /\ tick_msg = NoTick
    /\ data = NoData

InitStopVars ==
    /\ shutdown = FALSE
    /\ remaining = 0

InitExtVars ==
    /\ faults = <<>>
    /\ InitStartVars
    /\ InitStopVars
    /\ InitLockVars

Init ==
    /\ InitRiskVars
    /\ InitCalVars
    /\ InitConnVars
    /\ InitExtVars
    /\ db_calendar = CalendarNSE

(***************************************************************************)
(* Risk evaluator and exit trigger (src/websocket_service.py).            *)
(* A database state is the pair [pos, events].                             *)
(***************************************************************************)
\* Variant: the event records the price instead of the P&L.
RiskEvent_price(db, p, reason) ==
    [strategy_id |-> strategy_id(p), execution_id |-> p, event_type |-> reason,
     trigger_value |-> db.pos[p].current_price, action_taken |-> "exit_triggered",
     created_at |-> clock]

RiskEvent(db, p, reason) ==
    [strategy_id |-> strategy_id(p), execution_id |-> p, event_type |-> reason,
     trigger_value |-> db.pos[p].unrealized_pnl, action_taken |-> "exit_triggered",
     created_at |-> clock]

trigger_exit(db, p, reason) ==
    [pos |-> [db.pos EXCEPT ![p].exit_reason = reason,
                            ![p].exit_triggered_at = clock],
     events |-> Append(db.events, RiskEvent(db, p, reason))]

\* Variant: the BUY formula for either side.
Pnl_buy_only(p, ltp) == (ltp - entry_price(p)) * quantity(p)

Pnl(p, ltp) ==
    IF side(p) = "BUY" THEN (ltp - entry_price(p)) * quantity(p)
                       ELSE (entry_price(p) - ltp) * quantity(p)

StopLossHit(p, pnl) ==
    stop_loss(strategy_id(p)) # 0 /\ pnl <= 0 - Abs(stop_loss(strategy_id(p)))

\* Variant: a strict comparison with the target.
TakeProfitHit_strict(p, pnl) ==
    take_profit(strategy_id(p)) # 0 /\ pnl > Abs(take_profit(strategy_id(p)))

\* Variant: the target is compared with the magnitude of the P&L.
TakeProfitHit_magnitude(p, pnl) ==
    take_profit(strategy_id(p)) # 0 /\ Abs(pnl) >= Abs(take_profit(strategy_id(p)))

TakeProfitHit(p, pnl) ==
    take_profit(strategy_id(p)) # 0 /\ pnl >= Abs(take_profit(strategy_id(p)))

check_position(db, p, ltp) ==
    LET pnl == Pnl(p, ltp)
        db1 == [db EXCEPT !.pos[p].current_price = ltp,
                          !.pos[p].unrealized_pnl = pnl]
        db2 == IF StopLossHit(p, pnl) THEN trigger_exit(db1, p, "stop_loss") ELSE db1
        db3 == IF TakeProfitHit(p, pnl) THEN trigger_exit(db2, p, "take_profit") ELSE db2
    IN db3

open_positions(db, sym) ==
    {p \in Positions : db.pos[p].status = "entered" /\ symbol(p) = sym}

RECURSIVE check_each(_, _, _)
check_each(db, todo, ltp) ==
    IF todo = {} THEN db
    ELSE LET p == CHOOSE q \in todo : \A r \in todo : q <= r
         IN check_each(check_position(db, p, ltp), todo \ {p}, ltp)

check_risk_triggers(db, sym, ltp) ==
    check_each(db, open_positions(db, sym), ltp)

\* Variant: the document is written without the subscription list.
save_prices_without_subscriptions(prices) ==
    [prices |-> prices, updated_at |-> clock, subscriptions |-> {}]

save_prices(prices) ==
    [prices |-> prices, updated_at |-> clock, subscriptions |-> subscriptions]

\* _on_message for a market_data / flat tick message.
on_message(msg) ==
    /\ last_op' = Op("tick", 0, msg.symbol, msg.ltp)
    /\ IF msg.symbol = "" \/ msg.ltp = 0
       THEN UNCHANGED <<pos, risk_events, latest_prices, shared_data>>
       ELSE LET prices == [latest_prices EXCEPT
                              ![msg.symbol] = [ltp |-> msg.ltp, timestamp |-> clock]]
                db == check_risk_triggers([pos |-> pos, events |-> risk_events],
                                          msg.symbol, msg.ltp)
            IN /\ Len(db.events) <= MaxEvents
               /\ latest_prices' = prices
               /\ shared_data' = save_prices(prices)
               /\ pos' = db.pos
               /\ risk_events' = db.events
    /\ UNCHANGED <<clock, subscriptions, orders>>
    /\ UNCHANGED calVars
    /\ UNCHANGED connVars
    /\ UNCHANGED extVars

advance_clock ==
    /\ clock + ClockStep <= MaxTime
    /\ clock' = clock + ClockStep
    /\ last_op' = Op("clock", 0, "", 0)
    /\ UNCHANGED <<pos, risk_events, latest_prices, subscriptions, shared_data, orders>>
    /\ UNCHANGED calVars
    /\ UNCHANGED connVars
    /\ UNCHANGED extVars

(***************************************************************************)
(* Exit state machine of the order-execution collaborator.                 *)
(***************************************************************************)
\* Variant: the gate looks at the status only.
RetryGate_untimed(status, exit_retry_after, now) == status = "exit_pending"

RetryGate(status, exit_retry_after, now) ==
    status = "exit_pending" /\ (exit_retry_after = Null \/ now >= exit_retry_after)

\* Variant: no status guard, every pick-up starts the exit over.
requestExit_unguarded(p, reason) ==
    /\ reason # NoReason
    /\ last_op' = Op("requestExit", p, "", 0)
    /\ pos' = [pos EXCEPT ![p].status = "exit_pending",
                          ![p].exit_pending_since = clock,
                          ![p].exit_reason = reason,
                          ![p].exit_attempt_count = 0,
                          ![p].exit_broker_verified = FALSE]
    /\ UNCHANGED <<clock, risk_events, latest_prices, subscriptions, shared_data, orders>>
    /\ UNCHANGED calVars
    /\ UNCHANGED connVars
    /\ UNCHANGED extVars

\* The main application picks up a position the service marked for exit.
requestExit(p, reason) ==
    /\ reason # NoReason
    /\ last_op' = Op("requestExit", p, "", 0)
    /\ IF pos[p].status # "entered"
       THEN UNCHANGED pos
       ELSE pos' = [pos EXCEPT ![p].status = "exit_pending",
                               ![p].exit_pending_since = clock,
                               ![p].exit_reason = reason,
                               ![p].exit_attempt_count = 0,
                               ![p].exit_broker_verified = FALSE]
    /\ UNCHANGED <<clock, risk_events, latest_prices, subscriptions, shared_data, orders>>
    /\ UNCHANGED calVars
    /\ UNCHANGED connVars
    /\ UNCHANGED extVars

\* Broker verification before a retry: is an exit order of p live?
LiveOrderExists(p) == orders[p] > 0

\* An earlier attempt was made and nothing confirmed it.
IsRetry(p) == pos[p].exit_attempt_count > 0

\* Variant: an attempt that did not reach the broker puts the position back to entered.
attemptExit_reverting(p, reached) ==
    /\ last_op' = Op("attemptExit", p, "", 0)
    /\ IF ~RetryGate(pos[p].status, pos[p].exit_retry_after, clock)
       THEN UNCHANGED <<pos, orders>>
       ELSE LET counted == [pos EXCEPT ![p].exit_attempt_count = @ + 1,
                                       ![p].exit_retry_after = clock + RetrySpacing]
            IN IF reached /\ ~LiveOrderExists(p)
               THEN /\ pos' = counted
                    /\ orders' = [orders EXCEPT ![p] = @ + 1]
               ELSE /\ pos' = [counted EXCEPT ![p].status = "entered"]
                    /\ UNCHANGED orders
    /\ UNCHANGED <<clock, risk_events, latest_prices, subscriptions, shared_data>>
    /\ UNCHANGED calVars
    /\ UNCHANGED connVars
    /\ UNCHANGED extVars

\* Variant: a retry places its order without asking the broker first.
attemptExit_unverified(p, reached) ==
    /\ last_op' = Op("attemptExit", p, "", 0)
    /\ IF ~RetryGate(pos[p].status, pos[p].exit_retry_after, clock)
       THEN UNCHANGED <<pos, orders>>
       ELSE /\ pos' = [pos EXCEPT ![p].exit_attempt_count = @ + 1,
                                  ![p].exit_retry_after = clock + RetrySpacing]
            /\ orders' = IF reached THEN [orders EXCEPT ![p] = @ + 1] ELSE orders
    /\ UNCHANGED <<clock, risk_events, latest_prices, subscriptions, shared_data>>
    /\ UNCHANGED calVars
    /\ UNCHANGED connVars
    /\ UNCHANGED extVars

attemptExit(p, reached) ==
    /\ last_op' = Op("attemptExit", p, "", 0)
    /\ IF ~RetryGate(pos[p].status, pos[p].exit_retry_after, clock)
       THEN UNCHANGED <<pos, orders>>
       ELSE LET counted == [pos EXCEPT ![p].exit_attempt_count = @ + 1,
                                       ![p].exit_retry_after = clock + RetrySpacing]
            IN IF IsRetry(p)
               THEN /\ pos' = [counted EXCEPT ![p].exit_broker_verified = ~LiveOrderExists(p)]
                    /\ orders' = IF LiveOrderExists(p) \/ ~reached THEN orders
                                  ELSE [orders EXCEPT ![p] = @ + 1]
               ELSE /\ pos' = counted
                    /\ orders' = IF reached THEN [orders EXCEPT ![p] = @ + 1] ELSE orders
    /\ UNCHANGED <<clock, risk_events, latest_prices, subscriptions, shared_data>>
    /\ UNCHANGED calVars
    /\ UNCHANGED connVars
    /\ UNCHANGED extVars

\* The broker fills the live exit order; the confirmation reaches the caller or is lost.
brokerFill(p, delivered) ==
    /\ orders[p] > 0
    /\ orders' = [orders EXCEPT ![p] = @ - 1]
    /\ last_op' = Op(IF delivered THEN "fillConfirmed" ELSE "fillUnconfirmed", p, "", 0)
    /\ IF delivered /\ pos[p].status = "exit_pending"
       THEN pos' = [pos EXCEPT ![p].status = "exited", ![p].exit_broker_verified = TRUE]
       ELSE UNCHANGED pos
    /\ UNCHANGED <<clock, risk_events, latest_prices, subscriptions, shared_data>>
    /\ UNCHANGED calVars
    /\ UNCHANGED connVars
    /\ UNCHANGED extVars

\* The calling collaborator has used up its retry budget.
giveUp(p) ==
    /\ pos[p].status = "exit_pending"
    /\ pos[p].exit_attempt_count >= RetryBudget
    /\ pos' = [pos EXCEPT ![p].status = "failed"]
    /\ last_op' = Op("giveUp", p, "", 0)
    /\ UNCHANGED <<clock, risk_events, latest_prices, subscriptions, shared_data, orders>>
    /\ UNCHANGED calVars
    /\ UNCHANGED connVars
    /\ UNCHANGED extVars

\* Tick handling with the main application's pick-up, every tick of Ticks.
NextRisk ==
    \/ \E msg \in Ticks : on_message(msg)
    \/ advance_clock
    \/ \E p \in Positions : requestExit(p, pos[p].exit_reason)

SpecRisk == Init /\ [][NextRisk]_vars

\* The whole exit path: ticks, pick-up, exit attempts, the broker, the retry budget.
Next ==
    \/ \E msg \in ExitTicks : on_message(msg)
    \/ advance_clock
    \/ \E p \in Positions : requestExit(p, pos[p].exit_reason)
    \/ \E p \in Positions, reached \in BOOLEAN : attemptExit(p, reached)
    \/ \E p \in Positions, delivered \in BOOLEAN : brokerFill(p, delivered)
    \/ \E p \in Positions : giveUp(p)

Spec == Init /\ [][Next]_vars

(***************************************************************************)
(* Calendar cache (src/websocket_service.py).  A cache value is the record *)
(* of the four cached_* fields.                                             *)
(***************************************************************************)
Cache ==
    [sessions |-> cached_sessions, holidays |-> cached_holidays,
     specials |-> cached_special_sessions, refresh_time |-> cache_refresh_time]

SetCache(c) ==
    /\ cached_sessions' = c.sessions
    /\ cached_holidays' = c.holidays
    /\ cached_special_sessions' = c.specials
    /\ cache_refresh_time' = c.refresh_time

set_default_cache_sessions_only(c) == [c EXCEPT !.sessions = DefaultSessions]

set_default_cache(c) ==
    [c EXCEPT !.sessions = DefaultSessions, !.holidays = {}, !.specials = {}]

\* Where a refresh raises: 0 nowhere, 1 before the sessions query returns,
\* 2 at the holidays query, 3 at the special-sessions query.
FailPoints == 0..3

refresh_trading_hours_cache(c, db, now, fail) ==
    LET c1 == [c EXCEPT !.sessions = SelectSeq(db.sessions, LAMBDA r : r.is_active)]
        c2 == [c1 EXCEPT !.holidays = db.holidays]
        c3 == [c2 EXCEPT !.specials = {x \in db.specials : x.is_active}]
    IN  CASE fail = 0 -> [c3 EXCEPT !.refresh_time = now]
          [] fail = 1 -> set_default_cache(c)
          [] fail = 2 -> set_default_cache(c1)
          [] fail = 3 -> set_default_cache(c2)

pre_market_unbuffered(start_time) == start_time

\* (datetime.combine(date, start_time) - timedelta(minutes=15)).time()
pre_market(start_time) == (start_time - BufferMinutes) % MinutesPerDay

\* `pre_market <= current_time <= session['end_time']`
InWindow(start_time, end_time, now) ==
    /\ pre_market(start_time) <= now.minute
    /\ now.minute < end_time \/ (now.minute = end_time /\ now.millis = 0)

ClosingHoliday(c, date) ==
    \E h \in c.holidays : h.holiday_date = date /\ ~h.is_special_session

InSpecialSession(c, now) ==
    \E x \in c.specials : x.session_date = now.day /\ InWindow(x.start_time, x.end_time, now)

InWeeklySession(c, now) ==
    \E i \in 1..Len(c.sessions) :
        /\ c.sessions[i].day_of_week = now.day % 7
        /\ c.sessions[i].is_active
        /\ InWindow(c.sessions[i].start_time, c.sessions[i].end_time, now)

trading_hours_holiday_first(c, now) ==
    IF ClosingHoliday(c, now.day) THEN FALSE
    ELSE IF InSpecialSession(c, now) THEN TRUE
    ELSE InWeeklySession(c, now)

\* is_trading_hours, lines 193-217, on a loaded cache.
trading_hours(c, now) ==
    IF InSpecialSession(c, now) THEN TRUE
    ELSE IF ClosingHoliday(c, now.day) THEN FALSE
    ELSE InWeeklySession(c, now)

\* Variant: a reload on the first query of a day, at any time of the day.
NeedsRefresh_any_time(c, now) ==
    \/ c.refresh_time = NoTime
    \/ c.refresh_time.day # now.day

NeedsRefresh(c, now) ==
    \/ c.refresh_time = NoTime
    \/ /\ now.minute \div 60 = RefreshHour
       /\ now.minute % 60 < RefreshMinutes
       /\ c.refresh_time.day # now.day

ensure_sessions_skipped(c) == c

\* `if not self.cached_sessions: self._set_default_cache()`
ensure_sessions(c) == IF c.sessions = <<>> THEN set_default_cache(c) ELSE c

\* The first cached session of a weekday from index i on (0 when there is none).
RECURSIVE session_for(_, _, _)
session_for(c, weekday, i) ==
    IF i > Len(c.sessions) THEN 0
    ELSE IF c.sessions[i].day_of_week = weekday /\ c.sessions[i].is_active THEN i
    ELSE session_for(c, weekday, i + 1)

\* int((market_open - now).total_seconds()): the difference, which is
\* positive where the code takes it, loses its fraction of a second.
SecondsUntil(now, date, minute) ==
    (((date - now.day) * MinutesPerDay + minute - now.minute) * 60000 - now.millis) \div 1000

RECURSIVE next_trading_day_no_holidays(_, _, _)
next_trading_day_no_holidays(c, now, i) ==
    IF i > 7 THEN FallbackWait
    ELSE LET k == session_for(c, (now.day + i) % 7, 1)
         IN  IF k = 0 THEN next_trading_day_no_holidays(c, now, i + 1)
             ELSE SecondsUntil(now, now.day + i, pre_market(c.sessions[k].start_time))

\* get_time_until_market_open, lines 266-285: `for i in range(1, 8)`.
RECURSIVE next_trading_day(_, _, _)
next_trading_day(c, now, i) ==
    IF i > 7 THEN FallbackWait
    ELSE IF ClosingHoliday(c, now.day + i) THEN next_trading_day(c, now, i + 1)
    ELSE LET k == session_for(c, (now.day + i) % 7, 1)
         IN  IF k = 0 THEN next_trading_day(c, now, i + 1)
             ELSE SecondsUntil(now, now.day + i, pre_market(c.sessions[k].start_time))

\* get_time_until_market_open, lines 240-285, on a loaded cache.
time_until_market_open(c, now) ==
    LET k == session_for(c, now.day % 7, 1)
    IN  IF /\ k # 0
           /\ now.minute < pre_market(c.sessions[k].start_time)
           /\ ~ClosingHoliday(c, now.day)
        THEN SecondsUntil(now, now.day, pre_market(c.sessions[k].start_time))
        ELSE next_trading_day(c, now, 1)

\* run(), line 624: the first refresh, before the loop.
run_refresh(fail) ==
    /\ ~running
    /\ running' = TRUE
    /\ SetCache(refresh_trading_hours_cache(Cache, db_calendar, cal_now, fail))
    /\ last_op' = Op("run_refresh", fail, "reload", 0)
    /\ UNCHANGED <<cal_now, db_calendar, is_trading, wait_seconds>>
    /\ UNCHANGED riskVars
    /\ UNCHANGED connVars
    /\ UNCHANGED extVars

\* run(), line 639.
is_trading_hours(fail) ==
    /\ running
    /\ fail = 0 \/ NeedsRefresh(Cache, cal_now)
    /\ LET c1 == IF NeedsRefresh(Cache, cal_now)
                 THEN refresh_trading_hours_cache(Cache, db_calendar, cal_now, fail)
                 ELSE Cache
           c2 == ensure_sessions(c1)
       IN  /\ SetCache(c2)
           /\ is_trading' = trading_hours(c2, cal_now)
    /\ wait_seconds' = Null
    /\ last_op' = Op("is_trading_hours", fail,
                     IF NeedsRefresh(Cache, cal_now) THEN "reload" ELSE "", 0)
    /\ UNCHANGED <<cal_now, db_calendar, running>>
    /\ UNCHANGED riskVars
    /\ UNCHANGED connVars
    /\ UNCHANGED extVars

\* run(), line 669: called in the closed branch, after is_trading_hours()
\* of the same iteration returned False.
get_time_until_market_open(fail) ==
    /\ running
    /\ last_op.op = "is_trading_hours" /\ ~is_trading
    /\ fail = 0 \/ cached_sessions = <<>>
    /\ LET c1 == IF cached_sessions = <<>>
                 THEN ensure_sessions(
                          refresh_trading_hours_cache(Cache, db_calendar, cal_now, fail))
                 ELSE Cache
       IN  /\ SetCache(c1)
           /\ wait_seconds' = time_until_market_open(c1, cal_now)
    /\ last_op' = Op("get_time_until_market_open", fail,
                     IF cached_sessions = <<>> THEN "reload" ELSE "", 0)
    /\ UNCHANGED <<cal_now, db_calendar, running, is_trading>>
    /\ UNCHANGED riskVars
    /\ UNCHANGED connVars
    /\ UNCHANGED extVars

\* Time passes: to the next time of day, or to the start of the next day.
NextInstants(now) ==
    {t \in Instants :
        \/ /\ t.day = now.day
           /\ now.minute < t.minute
           /\ \A m \in TimesOfDay : ~(now.minute < m /\ m < t.minute)
        \/ /\ t.day = now.day + 1
           /\ \A m \in TimesOfDay : t.minute <= m}

cal_advance ==
    /\ running
    /\ \E t \in NextInstants(cal_now) : cal_now' = t
    /\ wait_seconds' = Null
    /\ last_op' = Op("cal_advance", 0, "", 0)
    /\ UNCHANGED <<db_calendar, cached_sessions, cached_holidays, cached_special_sessions,
                   cache_refresh_time, running, is_trading>>
    /\ UNCHANGED riskVars
    /\ UNCHANGED connVars
    /\ UNCHANGED extVars

\* The service starts at any time of the first day, on any of the calendars.
InitCal ==
    /\ InitRiskVars
    /\ cached_sessions = <<>>
    /\ cached_holidays = {}
    /\ cached_special_sessions = {}
    /\ cache_refresh_time = NoTime
    /\ running = FALSE
    /\ is_trading = FALSE
    /\ wait_seconds = Null
    /\ cal_now \in {t \in Instants : t.day = 0}
    /\ db_calendar \in Calendars
    /\ InitConnVars
    /\ InitExtVars

NextCal ==
    \/ \E fail \in FailPoints : run_refresh(fail)
    \/ \E fail \in FailPoints : is_trading_hours(fail)
    \/ \E fail \in FailPoints : get_time_until_market_open(fail)
    \/ cal_advance

SpecCal == InitCal /\ [][NextCal]_vars

(***************************************************************************)
(* Connection lifecycle (src/websocket_service.py): connect, the transport *)
(* callbacks, _reconnect, stop_websocket and the branches of run()'s loop.  *)
(* connect() waits 3 seconds between starting the transport and reading    *)
(* self.authenticated, so it is two steps; the callbacks of the transport   *)
(* thread run in between.                                                   *)
(***************************************************************************)
delays == <<2, 4, 8, 16, 30, 60>>
refresh_interval == 60
LoopTick == 30       \* seconds run()'s loop spends in one modelled step
ConnectTicks == {[symbol |-> "NIFTY", exchange |-> "NFO", ltp |-> 130]}

Instrument(p) == [exchange |-> exchange(p), symbol |-> symbol(p)]

\* get_open_positions: the instruments of the positions with status entered.
get_open_positions(rows) == {Instrument(p) : p \in {q \in Positions : rows[q].status = "entered"}}

Open(t) == transports[t] \in {"pending", "ready"}
CanSend == ws # 0 /\ Open(ws)

\* self.ws.send raises when there is something to send and no open transport held.
send_raises(rows) == get_open_positions(rows) # {} /\ ~CanSend

subscribe_to_positions_never(rows) == {}

\* _subscribe_to_positions: what is sent and added to self.subscriptions
\* (self.ws.send raises on a missing or closed transport).
subscribe_to_positions(rows) == IF CanSend THEN get_open_positions(rows) ELSE {}

\* connect(), lines 362-372: a new transport replaces self.ws.  A closed
\* transport is released, an open one stays alive without being held.
Released == [t \in 1..MaxTransports |-> IF transports[t] = "closed" THEN "free" ELSE transports[t]]
FreeTransports == {t \in 1..MaxTransports : Released[t] = "free"}
connect_start ==
    IF ws_url = "" \/ api_key = ""
    THEN \* lines 355-357: not configured, connect() returns False
         UNCHANGED <<ws, transports, sent>>
    ELSE /\ FreeTransports # {}
         /\ LET t == CHOOSE x \in FreeTransports : \A y \in FreeTransports : x <= y
            IN  /\ ws' = t
                /\ transports' = [Released EXCEPT ![t] = "pending"]
         /\ sent' = {}

\* run(), line 647: the sleep after a failed connect().
RetrySleep == 30

\* connect(), lines 377-383, after the wait.
connect_finish == active' = (active \/ authenticated)

\* Variant: the loop connects whatever is_trading_hours() returned.
run_connect_ungated ==
    /\ proc = "running"
    /\ loop_pc = "loop"
    /\ ~shutdown
    /\ ~was_trading_hours
    /\ connect_start
    /\ loop_pc' = "connect"
    /\ last_op' = Op("connect", 0, "", 0)
    /\ UNCHANGED <<authenticated, active, was_trading_hours, tasks, backoff, since_refresh>>
    /\ UNCHANGED riskVars
    /\ UNCHANGED calVars
    /\ UNCHANGED extVars

\* run(), lines 638-645: is_trading_hours() returned True and the loop is
\* not connected.
run_connect ==
    /\ proc = "running"
    /\ loop_pc = "loop"
    /\ ~shutdown
    /\ is_trading' = TRUE
    /\ ~was_trading_hours
    /\ connect_start
    /\ loop_pc' = "connect"
    /\ last_op' = Op("connect", 0, "", 0)
    /\ UNCHANGED <<authenticated, active, was_trading_hours, tasks, backoff, since_refresh>>
    /\ UNCHANGED riskVars
    /\ UNCHANGED calCache
    /\ UNCHANGED extVars

\* run(), lines 645-649: connect() returns; on failure the loop sleeps 30 s.
run_connected ==
    /\ loop_pc = "connect"
    /\ connect_finish
    /\ was_trading_hours' = authenticated
    /\ backoff' = IF authenticated THEN 0 ELSE backoff
    /\ since_refresh' = IF authenticated \/ since_refresh + LoopTick > refresh_interval
                        THEN since_refresh ELSE since_refresh + LoopTick
    /\ loop_pc' = "loop"
    /\ last_op' = Op(IF authenticated THEN "connect_ok" ELSE "connect_failed", 0, "",
                     IF authenticated THEN 0 ELSE RetrySleep)
    /\ UNCHANGED <<ws, transports, authenticated, tasks, sent>>
    /\ UNCHANGED riskVars
    /\ UNCHANGED calVars
    /\ UNCHANGED extVars

\* run(), lines 651-659: the market is open and the loop is connected.
run_trading ==
    /\ proc = "running"
    /\ loop_pc = "loop"
    /\ ~shutdown
    /\ is_trading' = TRUE
    /\ was_trading_hours
    /\ IF since_refresh < refresh_interval
       THEN /\ since_refresh' = since_refresh + LoopTick
            /\ UNCHANGED <<subscriptions, sent>>
            /\ last_op' = Op("loop", 0, "", 0)
       ELSE IF ~authenticated
       THEN /\ since_refresh' = 0
            /\ UNCHANGED <<subscriptions, sent>>
            /\ last_op' = Op("loop", 0, "", 0)
       ELSE IF send_raises(pos)
       THEN \* the exception reaches line 686: last_refresh is not updated
            /\ UNCHANGED <<since_refresh, subscriptions, sent>>
            /\ last_op' = Op("loop_error", 0, "", 0)
       ELSE /\ since_refresh' = 0
            /\ subscriptions' = subscriptions \cup subscribe_to_positions(pos)
            /\ sent' = sent \cup subscribe_to_positions(pos)
            /\ last_op' = Op("refresh", 0, "", 0)
    /\ UNCHANGED <<ws, transports, authenticated, active, was_trading_hours, loop_pc, tasks,
                   backoff>>
    /\ UNCHANGED <<clock, pos, risk_events, latest_prices, shared_data, orders>>
    /\ UNCHANGED calCache
    /\ UNCHANGED extVars

IdleTasks == {k \in 1..MaxTasks : tasks[k].pc = "idle"}

\* Variant: _on_close starts no thread.
start_reconnect_never(flag) == tasks

\* _on_close, lines 474-477, reading flag as self.active: a _reconnect
\* thread is started at the head of delays.
start_reconnect(flag) ==
    IF flag /\ IdleTasks # {}
    THEN LET k == CHOOSE x \in IdleTasks : \A y \in IdleTasks : x <= y
         IN  [tasks EXCEPT ![k] = [pc |-> "sleep", i |-> 1]]
    ELSE tasks

stop_websocket_close_first ==
    /\ active' = FALSE
    /\ authenticated' = FALSE
    /\ subscriptions' = {}
    /\ latest_prices' = [s \in Symbols |-> NoPrice]
    /\ transports' = [t \in 1..MaxTransports |-> IF t = ws THEN "free" ELSE transports[t]]
    /\ tasks' = start_reconnect(ws # 0 /\ Open(ws) /\ active)
    /\ ws' = 0
    /\ sent' = {}

\* stop_websocket: self.active is cleared (line 694) before the transport
\* is closed (line 701), so the _on_close of this close reads it false.
stop_websocket ==
    /\ active' = FALSE
    /\ authenticated' = FALSE
    /\ subscriptions' = {}
    /\ latest_prices' = [s \in Symbols |-> NoPrice]
    /\ transports' = [t \in 1..MaxTransports |-> IF t = ws THEN "free" ELSE transports[t]]
    /\ tasks' = start_reconnect(ws # 0 /\ Open(ws) /\ FALSE)
    /\ ws' = 0
    /\ sent' = {}

\* run(), lines 661-684: is_trading_hours() returned False; the connection
\* is torn down when the loop was connected, and the loop waits.
closed_branch ==
    /\ proc = "running"
    /\ loop_pc = "loop"
    /\ ~shutdown
    /\ is_trading' = FALSE
    /\ IF was_trading_hours
       THEN /\ stop_websocket
            /\ backoff' = 0
            /\ last_op' = Op("stop_websocket", 0, "", 0)
       ELSE /\ UNCHANGED <<ws, transports, authenticated, active, tasks, backoff, sent>>
            /\ UNCHANGED <<subscriptions, latest_prices>>
            /\ last_op' = Op("wait", 0, "", 0)
    /\ was_trading_hours' = FALSE
    /\ UNCHANGED since_refresh
    /\ UNCHANGED <<clock, pos, risk_events, shared_data, orders>>
    /\ UNCHANGED calCache
    /\ UNCHANGED <<faults, startVars, lockVars>>

\* The closed branch with its whole wait, when no shutdown interrupts it.
run_closed ==
    /\ closed_branch
    /\ UNCHANGED loop_pc
    /\ UNCHANGED stopVars

\* run(), lines 668-678: the closed branch up to the wait; w is what
\* get_time_until_market_open() returned.
SleepChunk == 60
Min(a, b) == IF a <= b THEN a ELSE b
run_closed_wait(w) ==
    /\ closed_branch
    /\ loop_pc' = "wait"
    /\ remaining' = Min(w, FallbackWait)
    /\ UNCHANGED shutdown

\* run(), lines 679-684: one test of the while condition; a chunk is slept
\* when it holds.
wait_chunk ==
    /\ proc = "running"
    /\ loop_pc = "wait"
    /\ IF remaining > 0 /\ ~shutdown
       THEN /\ remaining' = remaining - Min(SleepChunk, remaining)
            /\ UNCHANGED loop_pc
            /\ last_op' = Op("sleep", 0, "", Min(SleepChunk, remaining))
       ELSE /\ loop_pc' = "loop"
            /\ UNCHANGED remaining
            /\ last_op' = Op("wait_done", 0, "", 0)
    /\ UNCHANGED <<ws, transports, authenticated, active, was_trading_hours, tasks, backoff,
                   sent, since_refresh>>
    /\ UNCHANGED shutdown
    /\ UNCHANGED <<faults, startVars, lockVars>>
    /\ UNCHANGED riskVars
    /\ UNCHANGED calVars

\* run(), line 635 and 688: the loop finds self._shutdown set; run() and
\* main() return.
loop_exit ==
    /\ proc = "running"
    /\ loop_pc = "loop"
    /\ shutdown
    /\ proc' = "exited"
    /\ exit_status' = 0
    /\ last_op' = Op("exit", 0, "", 0)
    /\ UNCHANGED <<accounts, ws_url, api_key>>
    /\ UNCHANGED <<faults, lockVars>>
    /\ UNCHANGED stopVars
    /\ UNCHANGED riskVars
    /\ UNCHANGED calVars
    /\ UNCHANGED connVars

\* _signal_handler and stop(): the flag is set, self.active cleared and the
\* transport held closed; its _on_close reads self.active false.
stop ==
    /\ proc = "running"
    /\ ~shutdown
    /\ shutdown' = TRUE
    /\ active' = FALSE
    /\ IF ws # 0 /\ Open(ws)
       THEN /\ transports' = [transports EXCEPT ![ws] = "closed"]
            /\ authenticated' = FALSE
       ELSE UNCHANGED <<transports, authenticated>>
    /\ last_op' = Op("stop", 0, "", 0)
    /\ UNCHANGED <<ws, was_trading_hours, loop_pc, tasks, backoff, sent, since_refresh>>
    /\ UNCHANGED remaining
    /\ UNCHANGED <<faults, startVars, lockVars>>
    /\ UNCHANGED riskVars
    /\ UNCHANGED calVars

\* _on_message, lines 405-415: the authentication success of transport t.
on_auth_success(t) ==
    /\ transports[t] = "pending"
    /\ transports' = [transports EXCEPT ![t] = "ready"]
    /\ authenticated' = TRUE
    /\ subscriptions' = subscriptions \cup subscribe_to_positions(pos)
    /\ sent' = sent \cup subscribe_to_positions(pos)
    /\ last_op' = Op("auth", t, "", 0)
    /\ UNCHANGED <<ws, active, was_trading_hours, loop_pc, tasks, backoff, since_refresh>>
    /\ UNCHANGED <<clock, pos, risk_events, latest_prices, shared_data, orders>>
    /\ UNCHANGED calVars
    /\ UNCHANGED extVars

\* The connection is Active: connect() succeeded on the transport held.
Active == active /\ authenticated /\ ws # 0 /\ transports[ws] = "ready"

\* _on_close of transport t (a drop, or a connection that could not be
\* made): a _reconnect thread is started when self.active is set and
\* self._shutdown is not.
on_close(t) ==
    /\ Open(t)
    /\ transports' = [transports EXCEPT ![t] = IF t = ws THEN "closed" ELSE "free"]
    /\ authenticated' = FALSE
    /\ active /\ ~shutdown => IdleTasks # {}
    /\ tasks' = start_reconnect(active /\ ~shutdown)
    /\ last_op' = Op("close", t, IF t = ws /\ Active THEN "drop" ELSE "", 0)
    /\ UNCHANGED <<ws, active, was_trading_hours, loop_pc, backoff, sent, since_refresh>>
    /\ UNCHANGED riskVars
    /\ UNCHANGED calVars
    /\ UNCHANGED extVars

\* _reconnect, lines 483-490: thread k has slept delays[i] and calls connect().
reconnect_attempt(k) ==
    /\ proc = "running"
    /\ tasks[k].pc = "sleep"
    /\ connect_start
    /\ tasks' = [tasks EXCEPT ![k].pc = "connect"]
    /\ last_op' = Op("reconnect", k, "", delays[tasks[k].i])
    /\ UNCHANGED <<authenticated, active, was_trading_hours, loop_pc, backoff, since_refresh>>
    /\ UNCHANGED riskVars
    /\ UNCHANGED calVars
    /\ UNCHANGED extVars

\* _reconnect, lines 483-494: connect() returns to thread k; before the next
\* sleep the thread looks at self._shutdown.
reconnect_connected(k) ==
    /\ proc = "running"
    /\ tasks[k].pc = "connect"
    /\ connect_finish
    /\ tasks' = [tasks EXCEPT ![k] =
                    IF authenticated \/ tasks[k].i = Len(delays) \/ shutdown
                    THEN IdleTask
                    ELSE [pc |-> "sleep", i |-> tasks[k].i + 1]]
    /\ backoff' = IF authenticated THEN 0
                  ELSE IF backoff > Len(delays) THEN backoff ELSE backoff + 1
    /\ last_op' = Op(IF authenticated THEN "connect_ok" ELSE "connect_failed", k, "", 0)
    /\ UNCHANGED <<ws, transports, authenticated, was_trading_hours, loop_pc, sent,
                   since_refresh>>
    /\ UNCHANGED riskVars
    /\ UNCHANGED calVars
    /\ UNCHANGED extVars

\* A tick arrives on an authenticated transport.
connection_tick(msg) ==
    /\ \E t \in 1..MaxTransports : transports[t] = "ready"
    /\ on_message(msg)

\* The order-execution collaborator records an entry: the row gets status entered.
enter_position(p) ==
    /\ pos[p].status = "pending"
    /\ pos' = [pos EXCEPT ![p].status = "entered"]
    /\ last_op' = Op("enter", p, "", 0)
    /\ UNCHANGED <<clock, risk_events, latest_prices, subscriptions, shared_data, orders>>
    /\ UNCHANGED calVars
    /\ UNCHANGED connVars
    /\ UNCHANGED extVars

\* Position 2 is entered during the session.
InitConn ==
    /\ clock = 0
    /\ pos = [p \in Positions |->
                IF p = 2 THEN [InitPosition EXCEPT !.status = "pending"] ELSE InitPosition]
    /\ risk_events = <<>>
    /\ latest_prices = [s \in Symbols |-> NoPrice]
    /\ subscriptions = {}
    /\ shared_data = [prices |-> [s \in Symbols |-> NoPrice], updated_at |-> Null,
                      subscriptions |-> {}]
    /\ orders = [p \in Positions |-> 0]
    /\ last_op = Op("init", 0, "", 0)
    /\ InitCalVars
    /\ InitConnVars
    /\ InitExtVars
    /\ db_calendar = CalendarNSE

\* Connecting, dropping and reconnecting, without market data.
NextConn ==
    \/ run_connect
    \/ run_connected
    \/ run_closed
    \/ \E t \in 1..MaxTransports : on_auth_success(t)
    \/ \E t \in 1..MaxTransports : on_close(t)
    \/ \E k \in 1..MaxTasks : reconnect_attempt(k)
    \/ \E k \in 1..MaxTasks : reconnect_connected(k)

SpecConn == InitConn /\ [][NextConn]_vars

\* A trading session with its subscriptions and market data; the _reconnect
\* threads a drop starts are still in their first sleep.
NextSession ==
    \/ run_connect
    \/ run_connected
    \/ run_trading
    \/ run_closed
    \/ \E t \in 1..MaxTransports : on_auth_success(t)
    \/ \E t \in 1..MaxTransports : on_close(t)
    \/ \E msg \in ConnectTicks : connection_tick(msg)
    \/ \E p \in Positions : enter_position(p)

SpecSession == InitConn /\ [][NextSession]_vars

(***************************************************************************)
(* Properties.                                                             *)
(***************************************************************************)
\* P&L of position p at price ltp, as the design states it.
ClaimPnl(p, ltp) ==
    IF side(p) = "BUY" THEN (ltp - entry_price(p)) * quantity(p)
                       ELSE (entry_price(p) - ltp) * quantity(p)

EventsOf(log, p) == {i \in 1..Len(log) : log[i].execution_id = p}

\* The RiskEvents this step appends for position p.
NewEventsOf(p) ==
    {i \in (Len(risk_events) + 1)..Len(risk_events') : risk_events'[i].execution_id = p}

\* This step is a tick that the risk evaluator applies to position p.
TickOn(p) ==
    /\ last_op'.op = "tick"
    /\ last_op'.ltp # 0
    /\ last_op'.symbol = symbol(p)
    /\ pos[p].status = "entered"

\* This step triggers an exit of p with the given reason.
Triggered(p, reason) ==
    /\ Cardinality(NewEventsOf(p)) = 1
    /\ \A i \in NewEventsOf(p) : risk_events'[i].event_type = reason
    /\ pos'[p].exit_reason = reason

\* C1: a position that has left status entered never returns to it; from
\* exit_pending the status changes only to exited, on the broker's confirmation
\* of the fill, or to failed, once the retry budget is used up; exited and
\* failed are final.
StickyExitPending ==
    [][\A p \in Positions :
        /\ pos[p].status # "entered" => pos'[p].status # "entered"
        /\ pos[p].status \in {"exited", "failed"} => pos'[p].status = pos[p].status
        /\ (pos[p].status = "exit_pending" /\ pos'[p].status # "exit_pending") =>
              \/ /\ pos'[p].status = "exited"
                 /\ last_op' = Op("fillConfirmed", p, "", 0)
              \/ /\ pos'[p].status = "failed"
                 /\ last_op' = Op("giveUp", p, "", 0)
                 /\ pos[p].exit_attempt_count >= RetryBudget]_vars

\* C1 witness: two attempts were made, no order is live, the broker was asked,
\* and the position is still exit_pending.
StickyWitness ==
    \E p \in Positions :
        /\ pos[p].status = "exit_pending"
        /\ pos[p].exit_attempt_count >= 2
        /\ pos[p].exit_broker_verified
        /\ orders[p] = 0

\* C2: at every instant at most one exit order of a position is live at the broker.
AtMostOneLiveOrder == \A p \in Positions : orders[p] <= 1

\* C2 witness: a retry that found the earlier order live and placed nothing.
SuppressedRetryWitness ==
    \E p \in Positions :
        /\ last_op = Op("attemptExit", p, "", 0)
        /\ pos[p].exit_attempt_count >= 2
        /\ pos[p].exit_retry_after = clock + RetrySpacing
        /\ ~pos[p].exit_broker_verified
        /\ orders[p] = 1

\* C3 (as claimed): a tick appends no RiskEvent for a position that is
\* exit_pending and leaves its exit_attempt_count alone, and at most one
\* RiskEvent ever exists per position.
IdempotentTrigger ==
    [][\A p \in Positions :
        /\ (pos[p].status = "exit_pending" /\ last_op'.op = "tick") =>
              /\ NewEventsOf(p) = {}
              /\ pos'[p].exit_attempt_count = pos[p].exit_attempt_count
        /\ Cardinality(EventsOf(risk_events', p)) <= 1]_vars

\* C4 (as claimed): the exit request that a trigger makes for an entered
\* position sets status, exit_pending_since, exit_reason, exit_attempt_count
\* and exit_broker_verified.
RequestExitSetsPending ==
    [][\A p \in Positions :
        (pos[p].status = "entered" /\ NewEventsOf(p) # {}) =>
            /\ pos'[p].status = "exit_pending"
            /\ pos'[p].exit_pending_since = clock
            /\ \A i \in NewEventsOf(p) : pos'[p].exit_reason = risk_events'[i].event_type
            /\ pos'[p].exit_attempt_count = 0
            /\ pos'[p].exit_broker_verified = FALSE]_vars

\* C5: an attemptExit call acts exactly when status is exit_pending and
\* exit_retry_after is unset or reached; it then adds one to exit_attempt_count
\* and sets exit_retry_after to now + 10 s; any other call changes no field and
\* places no order; nothing else changes exit_attempt_count.
AttemptExitGated ==
    [][\A p \in Positions :
        /\ last_op' = Op("attemptExit", p, "", 0) =>
              IF /\ pos[p].status = "exit_pending"
                 /\ (pos[p].exit_retry_after = Null \/ clock >= pos[p].exit_retry_after)
              THEN /\ pos'[p].exit_attempt_count = pos[p].exit_attempt_count + 1
                   /\ pos'[p].exit_retry_after = clock + 10
              ELSE pos' = pos /\ orders' = orders
        /\ pos'[p].exit_attempt_count # pos[p].exit_attempt_count =>
              last_op' = Op("attemptExit", p, "", 0)]_vars

\* C5 witness: a call made between an attempt and its exit_retry_after.
EarlyAttemptWitness ==
    \E p \in Positions :
        /\ last_op = Op("attemptExit", p, "", 0)
        /\ pos[p].status = "exit_pending"
        /\ pos[p].exit_attempt_count = 1
        /\ clock < pos[p].exit_retry_after
        /\ clock > pos[p].exit_retry_after - RetrySpacing

\* C6: exit_attempt_count never decreases, and exit_retry_after only ever
\* changes to a later instant.
MonotoneRetryFields ==
    [][\A p \in Positions :
        /\ pos'[p].exit_attempt_count >= pos[p].exit_attempt_count
        /\ pos'[p].exit_retry_after # pos[p].exit_retry_after =>
              /\ pos'[p].exit_retry_after # Null
              /\ (pos[p].exit_retry_after # Null =>
                      pos'[p].exit_retry_after > pos[p].exit_retry_after)]_vars

\* C6 witness: both fields have moved twice.
SecondAttemptWitness ==
    \E p \in Positions :
        /\ pos[p].exit_attempt_count >= 2
        /\ pos[p].exit_retry_after > RetrySpacing

\* C7 (as claimed): a tick that takes an entered position with a configured
\* stop_loss to pnl <= -abs(stop_loss) appends exactly one stop_loss RiskEvent
\* for it and leaves it exit_pending.
StopLossTriggers ==
    [][\A p \in Positions :
        (/\ TickOn(p)
         /\ stop_loss(strategy_id(p)) # 0
         /\ ClaimPnl(p, last_op'.ltp) <= 0 - Abs(stop_loss(strategy_id(p)))) =>
            /\ Triggered(p, "stop_loss")
            /\ pos'[p].status = "exit_pending"]_vars

\* C8 (as claimed): a tick with pnl >= abs(take_profit) triggers take_profit; a
\* tick with pnl strictly between the two thresholds triggers nothing.
TakeProfitAnyTarget ==
    [][\A p \in Positions :
        TickOn(p) =>
            /\ ClaimPnl(p, last_op'.ltp) >= Abs(take_profit(strategy_id(p))) =>
                  Triggered(p, "take_profit")
            /\ (/\ ClaimPnl(p, last_op'.ltp) > 0 - Abs(stop_loss(strategy_id(p)))
                /\ ClaimPnl(p, last_op'.ltp) < Abs(take_profit(strategy_id(p)))) =>
                  NewEventsOf(p) = {}]_vars

\* C8 (amended): a tick with pnl >= abs(take_profit), equality included,
\* triggers take_profit when the strategy's take_profit is configured
\* (non-zero); a tick with pnl strictly between the two thresholds triggers
\* nothing.
TakeProfitTriggers ==
    [][\A p \in Positions :
        TickOn(p) =>
            /\ (/\ take_profit(strategy_id(p)) # 0
                /\ ClaimPnl(p, last_op'.ltp) >= Abs(take_profit(strategy_id(p)))) =>
                  Triggered(p, "take_profit")
            /\ (/\ ClaimPnl(p, last_op'.ltp) > 0 - Abs(stop_loss(strategy_id(p)))
                /\ ClaimPnl(p, last_op'.ltp) < Abs(take_profit(strategy_id(p)))) =>
                  NewEventsOf(p) = {}]_vars

\* C8 witness: the SELL position, take_profit 300, after the tick at 70
\* (pnl exactly 300).
TakeProfitWitness ==
    /\ last_op = Op("tick", 0, "NIFTY", 70)
    /\ pos[2].exit_reason = "take_profit"
    /\ pos[2].unrealized_pnl = 300
    /\ \E i \in EventsOf(risk_events, 2) :
          risk_events[i].event_type = "take_profit" /\ risk_events[i].trigger_value = 300

RiskEventsAppendOnly ==
    [][/\ Len(risk_events') >= Len(risk_events)
       /\ \A i \in 1..Len(risk_events) : risk_events'[i] = risk_events[i]
       /\ \A i \in (Len(risk_events) + 1)..Len(risk_events') :
             LET e == risk_events'[i] IN
                /\ TickOn(e.execution_id)
                /\ NewEventsOf(e.execution_id) = {i}
                /\ e.event_type = pos'[e.execution_id].exit_reason
                /\ e.trigger_value = ClaimPnl(e.execution_id, last_op'.ltp)
                /\ e.event_type = "stop_loss" =>
                      e.trigger_value <= 0 - Abs(stop_loss(strategy_id(e.execution_id)))
                /\ e.event_type = "take_profit" =>
                      e.trigger_value >= Abs(take_profit(strategy_id(e.execution_id)))
       /\ \A p \in Positions :
             (pos'[p].exit_triggered_at # pos[p].exit_triggered_at
                \/ (last_op'.op = "tick" /\ pos'[p].exit_reason # pos[p].exit_reason)) =>
                   NewEventsOf(p) # {}]_vars

\* C10 witness: one tick appended an event for each of two positions.
TwoEventsWitness ==
    /\ Len(risk_events) = 2
    /\ risk_events[1].execution_id = 1
    /\ risk_events[1].event_type = "stop_loss"
    /\ risk_events[1].trigger_value = 0 - 600
    /\ risk_events[2].execution_id = 2
    /\ risk_events[2].event_type = "take_profit"
    /\ risk_events[2].trigger_value = 600
    /\ last_op = Op("tick", 0, "NIFTY", 40)

(***************************************************************************)
(* Calendar cache properties (SpecCal).                                     *)
(***************************************************************************)
Evaluated(name) == last_op.op = name
Weekday == cal_now.day % 7
DefaultInPlace ==
    /\ cached_sessions = DefaultSessions
    /\ cached_holidays = {}
    /\ cached_special_sessions = {}
At(h, m) == cal_now.minute = HHMM(h, m)

SpecialNow ==
    \E x \in cached_special_sessions :
        /\ x.session_date = cal_now.day
        /\ x.start_time - BufferMinutes <= cal_now.minute
        /\ cal_now.minute <= x.end_time
ClosedToday ==
    \E h \in cached_holidays : h.holiday_date = cal_now.day /\ h.is_special_session = FALSE
WeeklyNow ==
    \E i \in DOMAIN cached_sessions :
        /\ cached_sessions[i].is_active
        /\ cached_sessions[i].day_of_week = Weekday
        /\ cached_sessions[i].start_time - BufferMinutes <= cal_now.minute
        /\ cal_now.minute <= cached_sessions[i].end_time

\* C11: is_trading_hours answers by the first matching rule: a special
\* session of today whose buffered window holds now gives open, even on a
\* holiday; otherwise a closing holiday of today gives closed; otherwise an
\* active weekly session of today's weekday whose buffered window holds now
\* gives open; otherwise closed.
IsOpenFirstMatch ==
    Evaluated("is_trading_hours") =>
        /\ SpecialNow => is_trading
        /\ ~SpecialNow /\ ClosedToday => ~is_trading
        /\ ~SpecialNow /\ ~ClosedToday /\ WeeklyNow => is_trading
        /\ ~SpecialNow /\ ~ClosedToday /\ ~WeeklyNow => ~is_trading

\* The market is found open inside a special session on a closing holiday.
SpecialOnHolidayWitness ==
    /\ Evaluated("is_trading_hours")
    /\ SpecialNow
    /\ ClosedToday
    /\ is_trading

\* C12 as stated: with the default calendar the market is open on Tuesday
\* 09:05, closed on Tuesday 09:00 and closed all Saturday.
DefaultCalendarExamples ==
    Evaluated("is_trading_hours") /\ DefaultInPlace =>
        /\ Weekday = 1 /\ At(9, 5) => is_trading
        /\ Weekday = 1 /\ At(9, 0) => ~is_trading
        /\ Weekday = 5 => ~is_trading

\* C12, amended: with the default calendar the market is open on Tuesday
\* 09:05 and on Tuesday 09:00 (the buffered start itself belongs to the
\* window), closed on Tuesday 08:59 and closed all Saturday.
DefaultCalendarInclusive ==
    Evaluated("is_trading_hours") /\ DefaultInPlace =>
        /\ Weekday = 1 /\ At(9, 5) => is_trading
        /\ Weekday = 1 /\ At(9, 0) => is_trading
        /\ Weekday = 1 /\ At(8, 59) => ~is_trading
        /\ Weekday = 5 => ~is_trading

\* The default calendar is asked on a Tuesday at 09:00 sharp and answers open.
BufferedStartWitness ==
    /\ Evaluated("is_trading_hours")
    /\ DefaultInPlace
    /\ Weekday = 1
    /\ At(9, 0)
    /\ is_trading

SessionsOn(date) ==
    {i \in DOMAIN cached_sessions :
        cached_sessions[i].is_active /\ cached_sessions[i].day_of_week = date % 7}
ClosedOn(date) ==
    \E h \in cached_holidays : h.holiday_date = date /\ h.is_special_session = FALSE
BufferedStart(date, i) == date * MinutesPerDay + cached_sessions[i].start_time - BufferMinutes
NowMinutes == cal_now.day * MinutesPerDay + cal_now.minute
AheadToday ==
    {i \in SessionsOn(cal_now.day) : NowMinutes < BufferedStart(cal_now.day, i)}
OpenDays ==
    {d \in 1..7 : ~ClosedOn(cal_now.day + d) /\ SessionsOn(cal_now.day + d) # {}}

\* C13: get_time_until_market_open returns the seconds until today's
\* buffered session start when that is still ahead and today is not a
\* closing holiday; otherwise the seconds until the buffered start of the
\* session of the first of the next 7 days that is not a closing holiday
\* (from Friday 16:00 on the default calendar: Monday 09:00, 234000 s);
\* and 3600 when there is no such day.
NextOpenAfter ==
    Evaluated("get_time_until_market_open") =>
        /\ IF AheadToday # {} /\ ~ClosedOn(cal_now.day)
           THEN \E i \in AheadToday :
                    wait_seconds = (BufferedStart(cal_now.day, i) - NowMinutes) * 60
           ELSE IF OpenDays # {}
           THEN \E d \in OpenDays :
                    /\ \A e \in OpenDays : d <= e
                    /\ \E i \in SessionsOn(cal_now.day + d) :
                           wait_seconds = (BufferedStart(cal_now.day + d, i) - NowMinutes) * 60
           ELSE wait_seconds = FallbackWait
        /\ DefaultInPlace /\ Weekday = 4 /\ At(16, 0) => wait_seconds = 234000

\* A closing holiday is skipped: the next open is more than a day away
\* although the next day has a session.
HolidaySkippedWitness ==
    /\ Evaluated("get_time_until_market_open")
    /\ ClosedOn(cal_now.day + 1)
    /\ SessionsOn(cal_now.day + 1) # {}
    /\ wait_seconds > MinutesPerDay * 60

\* C14: a refresh that fails leaves exactly the default calendar in the
\* cache, wherever it failed, and the service keeps running.
FailedRefreshGivesDefault ==
    last_op.op \in {"run_refresh", "is_trading_hours", "get_time_until_market_open"}
        /\ last_op.p # 0
    => DefaultInPlace /\ running

\* A refresh failed after it had already overwritten sessions and holidays.
PartialRefreshWitness ==
    /\ last_op.op = "run_refresh"
    /\ last_op.p = 3
    /\ db_calendar.holidays # {}
    /\ DefaultInPlace

\* C15 as stated: once run() has made its first refresh the cached
\* sessions list is never empty.
SessionsNeverEmpty == running => cached_sessions # <<>>

\* C15, amended: whenever is_trading_hours or get_time_until_market_open
\* has been evaluated the cached sessions list is non-empty, and it is the
\* default list when the refresh failed or the database has no active session.
SessionsLoadedWhenEvaluated ==
    Evaluated("is_trading_hours") \/ Evaluated("get_time_until_market_open") =>
        /\ cached_sessions # <<>>
        /\ (last_op.p # 0 \/ \A i \in DOMAIN db_calendar.sessions :
                                 ~db_calendar.sessions[i].is_active)
               => cached_sessions = DefaultSessions

\* The database has no active session and the evaluation put the default in place.
LazyDefaultWitness ==
    /\ Evaluated("is_trading_hours")
    /\ last_op.p = 0
    /\ db_calendar = CalendarEmpty
    /\ cached_sessions = DefaultSessions

(***************************************************************************)
(* Connection lifecycle properties (SpecConn, SpecSession).                 *)
(***************************************************************************)
\* C16: connect() sets Active only when the authentication success was
\* received; a connect() that fails leaves the connection not active and
\* not authenticated and starts no other transport.
ConnectMarksActive ==
    [][/\ ~active /\ active' => authenticated
       /\ last_op'.op = "connect_ok" => authenticated /\ active'
       /\ last_op'.op = "connect_failed" =>
              ~active' /\ ~authenticated' /\ ws' = ws /\ transports' = transports]_vars

\* C17: the n-th consecutive failed-or-pending reconnection attempt comes
\* after delays[n], there are at most six of them, and a success starts
\* the count again.
BackoffSequence ==
    [][last_op'.op = "reconnect" =>
              backoff < Len(delays) /\ last_op'.ltp = delays[backoff + 1]]_vars

\* C18: when stop_websocket has completed, the transport that was held is
\* closed and no longer held, subscriptions and prices are empty, the
\* service is neither active nor authenticated, and no _reconnect thread
\* was started by it.
DeliberateClose ==
    [][last_op'.op = "stop_websocket" =>
          /\ ws' = 0
          /\ ws # 0 => transports'[ws] \notin {"pending", "ready"}
          /\ subscriptions' = {}
          /\ \A s \in Symbols : latest_prices'[s] = NoPrice
          /\ ~active'
          /\ ~authenticated'
          /\ tasks' = tasks]_vars

\* The market closed on a session that had subscriptions and prices.
DeliberateCloseWitness ==
    /\ last_op.op = "stop_websocket"
    /\ shared_data.subscriptions # {}
    /\ shared_data.prices["NIFTY"] # NoPrice
    /\ latest_prices["NIFTY"] = NoPrice
    /\ subscriptions = {}

Keys == {[exchange |-> t.exchange, symbol |-> t.symbol] : t \in Ticks}
KeyOf(msg) == [exchange |-> msg.exchange, symbol |-> msg.symbol]
\* What the published snapshot holds for a key: the document has one slot
\* per symbol name.
EntryOf(snapshot, key) == snapshot.prices[key.symbol].ltp

\* C20: the published snapshot has one entry per key (exchange:symbol) that
\* received a tick, holding the value of the last tick of that key: a tick
\* with a price sets the entry of its own key to its value and leaves the
\* entry of every other key as it was.
PriceStoreRoundTrip ==
    [][\A msg \in Ticks :
        msg.ltp # 0 /\ on_message(msg) =>
            \A key \in Keys :
                EntryOf(shared_data', key) =
                    IF key = KeyOf(msg) THEN msg.ltp ELSE EntryOf(shared_data, key)]_vars


\* What the in-memory price map holds for a key: the map has one slot per
\* symbol name.
StoreEntry(prices, key) == prices[key.symbol].ltp

\* C21: ticks for the same symbol name on two different exchanges are kept
\* as two separate entries: a tick with a price leaves the entry of the same
\* symbol on every other exchange as it was.
SeparateEntriesPerExchange ==
    [][\A msg \in Ticks :
        msg.ltp # 0 /\ on_message(msg) =>
            \A key \in Keys :
                key.symbol = msg.symbol /\ key.exchange # msg.exchange =>
                    StoreEntry(latest_prices', key) = StoreEntry(latest_prices, key)]_vars

(***************************************************************************)
(* Risk evaluation of one tick (SpecRisk).                                  *)
(***************************************************************************)
\* The RiskEvents one step appended for position p.
NewEvents(p) ==
    {i \in (Len(risk_events) + 1)..Len(risk_events') : risk_events'[i].execution_id = p}

\* C24: within one tick the stop-loss is evaluated before the take-profit
\* against the same pnl, and at most one of them fires for a position: the
\* tick appends at most one RiskEvent for the position, and the event and
\* the exit reason are the stop-loss when it is crossed, the take-profit
\* otherwise, both carrying the pnl of this tick.
OneTriggerPerTick ==
    [][\A msg \in Ticks :
        msg.ltp # 0 /\ on_message(msg) =>
            \A p \in Positions :
                LET pnl == Pnl(p, msg.ltp)
                    reason == IF StopLossHit(p, pnl) THEN "stop_loss" ELSE "take_profit"
                IN /\ Cardinality(NewEvents(p)) <= 1
                   /\ \A i \in NewEvents(p) :
                          /\ StopLossHit(p, pnl) \/ TakeProfitHit(p, pnl)
                          /\ risk_events'[i].event_type = reason
                          /\ risk_events'[i].trigger_value = pnl
                          /\ pos'[p].exit_reason = reason]_vars

\* A tick crossed the stop-loss of a position whose strategy has both a
\* stop-loss and a take-profit, and one RiskEvent was written.
OneTriggerWitness ==
    /\ last_op.op = "tick"
    /\ last_op.ltp = 160
    /\ stop_loss(strategy_id(2)) # 0 /\ take_profit(strategy_id(2)) # 0
    /\ pos[2].exit_reason = "stop_loss"
    /\ Len(risk_events) = 1
    /\ risk_events[1].execution_id = 2


(***************************************************************************)
(* Tick handling when the publish or a persistence call fails (SpecFault). *)
(***************************************************************************)
MaxFaults == 2

\* What can fail while one tick is handled: the write of the shared file, or
\* one of the three commits made for position `at`.
PersistenceFaults == {"price_write", "event_write", "mark_write"}
NoFault == [kind |-> "none", at |-> 0]
Faults ==
    {NoFault, [kind |-> "publish", at |-> 0]}
        \cup {[kind |-> k, at |-> p] : k \in PersistenceFaults, p \in Positions}

\* The shared file after a failed write: open(path, 'w') has emptied it.
Truncated ==
    [prices |-> [s \in Symbols |-> NoPrice], updated_at |-> Null, subscriptions |-> {}]

\* Variant: the exit reason is stored before the RiskEvent.
trigger_exit_fault_mark_first(db, p, reason, f) ==
    IF f.at = p /\ f.kind = "event_write"
    THEN [db EXCEPT !.pos[p].exit_reason = reason, !.pos[p].exit_triggered_at = clock]
    ELSE trigger_exit(db, p, reason)

\* _trigger_exit: a failed commit is caught inside; the commit of the
\* RiskEvent comes before the one of exit_reason and exit_triggered_at.
trigger_exit_fault(db, p, reason, f) ==
    IF f.at = p /\ f.kind = "event_write" THEN db
    ELSE IF f.at = p /\ f.kind = "mark_write"
         THEN [db EXCEPT !.events = Append(@, RiskEvent(db, p, reason))]
         ELSE trigger_exit(db, p, reason)

check_position_fault(db, p, ltp, f) ==
    LET pnl == Pnl(p, ltp)
        db1 == [db EXCEPT !.pos[p].current_price = ltp,
                          !.pos[p].unrealized_pnl = pnl]
        db2 == IF StopLossHit(p, pnl) THEN trigger_exit_fault(db1, p, "stop_loss", f) ELSE db1
        db3 == IF TakeProfitHit(p, pnl) THEN trigger_exit_fault(db2, p, "take_profit", f) ELSE db2
    IN db3

\* A failed commit of the price and P&L leaves the loop over the positions.
RECURSIVE check_each_fault(_, _, _, _)
check_each_fault(db, todo, ltp, f) ==
    IF todo = {} THEN db
    ELSE LET p == CHOOSE q \in todo : \A r \in todo : q <= r
         IN IF f.at = p /\ f.kind = "price_write" THEN db
            ELSE check_each_fault(check_position_fault(db, p, ltp, f), todo \ {p}, ltp, f)

check_risk_triggers_fault(db, sym, ltp, f) ==
    check_each_fault(db, open_positions(db, sym), ltp, f)

\* The fault hits a call this tick makes.
Strikes(f, msg) ==
    /\ f.kind \in PersistenceFaults =>
           /\ f.at \in open_positions([pos |-> pos, events |-> risk_events], msg.symbol)
           /\ f.kind # "price_write" =>
                  \/ StopLossHit(f.at, Pnl(f.at, msg.ltp))
                  \/ TakeProfitHit(f.at, Pnl(f.at, msg.ltp))
    /\ f # NoFault => Len(faults) < MaxFaults

TickOp(f) == IF f = NoFault THEN "tick" ELSE "tick_" \o f.kind \o "_failed"

\* _on_message for a tick, with the fault f.
on_message_fault(msg, f) ==
    /\ msg.symbol # "" /\ msg.ltp # 0
    /\ Strikes(f, msg)
    /\ faults' = IF f = NoFault THEN faults ELSE Append(faults, f)
    /\ last_op' = Op(TickOp(f), f.at, msg.symbol, msg.ltp)
    /\ LET prices == [latest_prices EXCEPT
                         ![msg.symbol] = [ltp |-> msg.ltp, timestamp |-> clock]]
           db == check_risk_triggers_fault([pos |-> pos, events |-> risk_events],
                                           msg.symbol, msg.ltp, f)
       IN /\ Len(db.events) <= MaxEvents
          /\ latest_prices' = prices
          /\ IF f.kind = "publish"
             THEN shared_data' \in {shared_data, Truncated}
             ELSE shared_data' = save_prices(prices)
          /\ pos' = db.pos
          /\ risk_events' = db.events
    /\ UNCHANGED <<clock, subscriptions, orders>>
    /\ UNCHANGED calVars
    /\ UNCHANGED connVars
    /\ UNCHANGED startVars
    /\ UNCHANGED stopVars
    /\ UNCHANGED lockVars

\* The service is connected and has subscribed the entered positions.
InitFault ==
    /\ clock = 0
    /\ pos = [p \in Positions |-> InitPosition]
    /\ risk_events = <<>>
    /\ latest_prices = [s \in Symbols |-> NoPrice]
    /\ subscriptions = {Instrument(p) : p \in Positions}
    /\ shared_data = [prices |-> [s \in Symbols |-> NoPrice], updated_at |-> Null,
                      subscriptions |-> {}]
    /\ orders = [p \in Positions |-> 0]
    /\ last_op = Op("init", 0, "", 0)
    /\ InitCalVars
    /\ db_calendar = CalendarNSE
    /\ ws = 1
    /\ transports = [t \in 1..MaxTransports |-> IF t = 1 THEN "ready" ELSE "free"]
    /\ authenticated = TRUE
    /\ active = TRUE
    /\ was_trading_hours = TRUE
    /\ loop_pc = "loop"
    /\ tasks = [k \in 1..MaxTasks |-> IdleTask]
    /\ backoff = 0
    /\ sent = {Instrument(p) : p \in Positions}
    /\ since_refresh = 0
    /\ faults = <<>>
    /\ InitStartVars
    /\ InitStopVars
    /\ InitLockVars

\* The ticks explored together with the faults.
FaultTicks == {t \in Ticks : t.exchange = "NFO" /\ t.ltp \in {130, 160}}

\* Ticks on a connected service, any of them with a fault.
NextFault ==
    \/ \E msg \in FaultTicks, f \in Faults : on_message_fault(msg, f)
    \/ advance_clock

SpecFault == InitFault /\ [][NextFault]_vars

\* C22: every tick with a price updates the price map and is followed by a
\* publish of the full snapshot: all the keys of the map, the current
\* subscription set and the time of the publish.  When the publish fails
\* the update of the map stays and the risk evaluation of the same tick runs
\* as it does after a successful publish; ticks after a failed publish are
\* handled the same way.
PublishBestEffort ==
    [][\A msg \in FaultTicks, f \in Faults :
        on_message_fault(msg, f) =>
            /\ latest_prices'[msg.symbol] = [ltp |-> msg.ltp, timestamp |-> clock]
            /\ f.kind # "publish" =>
                   /\ shared_data'.prices = latest_prices'
                   /\ shared_data'.subscriptions = subscriptions
                   /\ shared_data'.updated_at = clock
            /\ f.kind = "publish" =>
                   LET db == check_risk_triggers([pos |-> pos, events |-> risk_events],
                                                 msg.symbol, msg.ltp)
                   IN pos' = db.pos /\ risk_events' = db.events]_vars

\* A publish failed on a tick that crossed a stop-loss: the file still has
\* the price of the tick before, the map has the new one, the exit was
\* triggered.
PublishFailedWitness ==
    /\ last_op.op = "tick_publish_failed"
    /\ last_op.ltp = 160
    /\ latest_prices["NIFTY"].ltp = 160
    /\ shared_data.prices["NIFTY"].ltp = 130
    /\ pos[2].exit_reason = "stop_loss"
    /\ Len(risk_events) > 0


\* The threshold position p crosses at this price, or NoReason.
Crossed(p, ltp) ==
    IF StopLossHit(p, Pnl(p, ltp)) THEN "stop_loss"
    ELSE IF TakeProfitHit(p, Pnl(p, ltp)) THEN "take_profit" ELSE NoReason

\* C30: a persistence failure during the price/P&L write or the RiskEvent
\* append of a tick is contained.  The failed tick is handled to its end: the
\* price map is updated, no position changes its status, and an exit reason
\* is only stored together with its RiskEvent.  Every tick without a
\* persistence failure, also one that follows a failed tick, writes price and
\* P&L of each entered position of its symbol and triggers each threshold
\* that is crossed: the RiskEvent is appended and the exit reason stored.
PersistenceFailureContained ==
    [][\A msg \in FaultTicks, f \in Faults :
        on_message_fault(msg, f) =>
            /\ latest_prices'[msg.symbol].ltp = msg.ltp
            /\ \A p \in Positions :
                   /\ pos'[p].status = pos[p].status
                   /\ pos'[p].exit_reason # pos[p].exit_reason =>
                          /\ NewEvents(p) # {}
                          /\ pos'[p].exit_reason = Crossed(p, msg.ltp)
                   /\ pos'[p].current_price \in {pos[p].current_price, msg.ltp}
            /\ f.kind \notin PersistenceFaults =>
                   \A p \in Positions :
                       pos[p].status = "entered" /\ symbol(p) = msg.symbol =>
                           /\ pos'[p].current_price = msg.ltp
                           /\ pos'[p].unrealized_pnl = Pnl(p, msg.ltp)
                           /\ Crossed(p, msg.ltp) # NoReason =>
                                  /\ pos'[p].exit_reason = Crossed(p, msg.ltp)
                                  /\ \E i \in NewEvents(p) :
                                         risk_events'[i].event_type = Crossed(p, msg.ltp)]_vars

\* The append of the RiskEvent failed on one tick, and a later tick at a
\* price that still crosses the stop-loss has triggered the exit.
RetriedTriggerWitness ==
    /\ faults = <<[kind |-> "event_write", at |-> 2]>>
    /\ last_op.op = "tick"
    /\ last_op.ltp = 160
    /\ pos[2].exit_reason = "stop_loss"
    /\ \E i \in DOMAIN risk_events : risk_events[i].execution_id = 2


(***************************************************************************)
(* Startup: account selection and the end of the process (SpecStart).      *)
(***************************************************************************)
MaxAccounts == 2

Urls == {"", "wss"}
ApiKeys == {"", "key"}
AccountRows == {Account(primary, url, key) : primary \in BOOLEAN, url \in Urls, key \in ApiKeys}
AccountTables ==
    UNION {[1..n -> AccountRows] : n \in 0..MaxAccounts}

\* Query.first(): the first of the rows selected by a filter, 0 for None.
First(selected) ==
    IF selected = {} THEN 0 ELSE CHOOSE i \in selected : \A j \in selected : i <= j

\* The filters of the two queries: the rows they select.
IsPrimary(rows) == {i \in DOMAIN rows : rows[i].is_primary}
HasUrl(rows) == {i \in DOMAIN rows : rows[i].websocket_url # ""}

\* load_config_from_db: the result and the configuration it leaves.
load_config_from_db(rows, db_ok) ==
    LET primary == First(IsPrimary(rows))
        chosen == IF primary # 0 THEN primary ELSE First(HasUrl(rows))
    IN IF db_ok /\ chosen # 0
       THEN [ok |-> TRUE, ws_url |-> rows[chosen].websocket_url,
             api_key |-> rows[chosen].api_key]
       ELSE [ok |-> FALSE, ws_url |-> ws_url, api_key |-> api_key]

\* main() and run() up to the scheduler loop: a failed load_config_from_db
\* returns from run(), and main() returns after it.
run_startup(db_ok) ==
    /\ proc = "init"
    /\ LET cfg == load_config_from_db(accounts, db_ok)
       IN /\ ws_url' = cfg.ws_url
          /\ api_key' = cfg.api_key
          /\ proc' = IF cfg.ok THEN "running" ELSE "exited"
          /\ exit_status' = IF cfg.ok THEN Null ELSE 0
    /\ last_op' = Op("startup", IF db_ok THEN 1 ELSE 0, "", 0)
    /\ UNCHANGED accounts
    /\ UNCHANGED <<faults, lockVars>>
    /\ UNCHANGED stopVars
    /\ UNCHANGED riskVars
    /\ UNCHANGED calVars
    /\ UNCHANGED connVars

\* __init__: nothing configured; any content of the accounts table.
InitStart ==
    /\ InitRiskVars
    /\ InitCalVars
    /\ InitConnVars
    /\ db_calendar = CalendarNSE
    /\ faults = <<>>
    /\ InitStopVars
    /\ InitLockVars
    /\ accounts \in AccountTables
    /\ ws_url = ""
    /\ api_key = ""
    /\ proc = "init"
    /\ exit_status = Null

\* Startup and the first connection attempts of the scheduler loop.
NextStart ==
    \/ \E db_ok \in BOOLEAN : run_startup(db_ok)
    \/ run_connect
    \/ run_connected
    \/ \E t \in 1..MaxTransports : on_auth_success(t)

SpecStart == InitStart /\ [][NextStart]_vars

Usable(a) == a.websocket_url # "" /\ a.api_key # ""

\* C23: startup picks the account flagged primary, otherwise the first
\* account with a feed URL; when no account provides a usable feed URL and
\* credential, startup fails: the process ends with a non-zero exit status
\* and no connection attempt has been made.
StartupSelectsAccount ==
    [][last_op'.op = "startup" =>
        LET primary == First(IsPrimary(accounts))
            chosen == IF primary # 0 THEN primary ELSE First(HasUrl(accounts))
        IN /\ last_op'.p = 1 /\ chosen # 0 /\ Usable(accounts[chosen]) =>
                  /\ proc' = "running"
                  /\ ws_url' = accounts[chosen].websocket_url
                  /\ api_key' = accounts[chosen].api_key
           /\ (\A i \in DOMAIN accounts : ~Usable(accounts[i])) =>
                  /\ proc' = "exited"
                  /\ exit_status' \notin {Null, 0}
                  /\ \A t \in 1..MaxTransports : transports'[t] = "free"]_vars


(***************************************************************************)
(* The scheduler loop and the calendar (SpecSession).                       *)
(***************************************************************************)
\* C25: the loop calls connect() only in an iteration in which
\* is_trading_hours() returned True and no connection of the current trading
\* window is established; an iteration that finds the market closed tears
\* the connection down when one was established and at no other time, so
\* once per open-to-closed transition; a failed connect() is followed by the
\* sleep of 30 s before the loop goes on, so two connect() calls of the loop
\* are separated by a sleep.
SchedulerGate ==
    [][/\ last_op'.op = "connect" => is_trading' /\ ~was_trading_hours /\ loop_pc = "loop"
       /\ was_trading_hours /\ ~is_trading' =>
              /\ last_op'.op = "stop_websocket"
              /\ ~was_trading_hours' /\ ws' = 0 /\ ~active'
       /\ last_op'.op = "stop_websocket" => was_trading_hours /\ ~is_trading'
       /\ last_op'.op = "wait" =>
              /\ ~was_trading_hours /\ ~is_trading'
              /\ ws' = ws /\ transports' = transports /\ active' = active
       /\ loop_pc = "connect" /\ loop_pc' = "loop" /\ ~was_trading_hours' =>
              last_op' = Op("connect_failed", 0, "", RetrySleep)]_vars

\* After a trading window with market data was torn down the market is open
\* again, and the loop's connect() has failed and the loop has slept.
GateWitness ==
    /\ last_op = Op("connect_failed", 0, "", RetrySleep)
    /\ is_trading /\ ~was_trading_hours
    /\ shared_data.prices["NIFTY"] # NoPrice
    /\ latest_prices["NIFTY"] = NoPrice


(***************************************************************************)
(* Drops of an established connection (SpecDrop).                           *)
(***************************************************************************)
\* Transports close, _reconnect threads run, authentication answers arrive.
NextDrop ==
    \/ \E t \in 1..MaxTransports : on_close(t)
    \/ \E k \in 1..MaxTasks : reconnect_attempt(k)
    \/ \E k \in 1..MaxTasks : reconnect_connected(k)
    \/ \E t \in 1..MaxTransports : on_auth_success(t)

\* A started _reconnect thread is scheduled: its sleep ends and it calls
\* connect().
SpecDrop ==
    /\ InitFault
    /\ [][NextDrop]_vars
    /\ WF_vars(\E k \in 1..MaxTasks : reconnect_attempt(k))

\* The transport held has closed while the connection was Active, and no
\* shutdown is in progress.
Dropped == last_op.op = "close" /\ last_op.symbol = "drop" /\ ~shutdown

\* C26: every drop or error of the transport while the connection is Active
\* and no shutdown or deliberate close is in progress is eventually followed
\* by a connect() attempt of a reconnection.
DropLeadsToReconnect == Dropped ~> last_op.op = "reconnect"

\* After a drop of the Active connection a _reconnect thread has slept its
\* first delay and called connect().
ReconnectStartedWitness ==
    /\ last_op = Op("reconnect", 1, "", delays[1])
    /\ tasks[1] = [pc |-> "connect", i |-> 1]
    /\ active /\ ~authenticated


(***************************************************************************)
(* Shutdown (SpecStop).                                                     *)
(***************************************************************************)
\* What get_time_until_market_open() returns to the closed branch.
WaitInputs == {45, 150, 2 * FallbackWait}

\* The connection of a connected service has dropped and _on_close has
\* started a _reconnect thread.
InitStop ==
    /\ clock = 0
    /\ pos = [p \in Positions |-> InitPosition]
    /\ risk_events = <<>>
    /\ latest_prices = [s \in Symbols |-> NoPrice]
    /\ subscriptions = {Instrument(p) : p \in Positions}
    /\ shared_data = [prices |-> [s \in Symbols |-> NoPrice], updated_at |-> Null,
                      subscriptions |-> {}]
    /\ orders = [p \in Positions |-> 0]
    /\ last_op = Op("close", 1, "drop", 0)
    /\ InitCalVars
    /\ db_calendar = CalendarNSE
    /\ ws = 1
    /\ transports = [t \in 1..MaxTransports |-> IF t = 1 THEN "closed" ELSE "free"]
    /\ authenticated = FALSE
    /\ active = TRUE
    /\ was_trading_hours = TRUE
    /\ loop_pc = "loop"
    /\ tasks = [k \in 1..MaxTasks |-> IF k = 1 THEN [pc |-> "sleep", i |-> 1] ELSE IdleTask]
    /\ backoff = 0
    /\ sent = {Instrument(p) : p \in Positions}
    /\ since_refresh = 0
    /\ faults = <<>>
    /\ InitStartVars
    /\ InitStopVars
    /\ InitLockVars

\* The market closes, the _reconnect thread runs, and a signal stops the
\* service.
NextStop ==
    \/ \E w \in WaitInputs : run_closed_wait(w)
    \/ wait_chunk
    \/ stop
    \/ loop_exit
    \/ \E k \in 1..MaxTasks : reconnect_attempt(k)
    \/ \E k \in 1..MaxTasks : reconnect_connected(k)
    \/ \E t \in 1..MaxTransports : on_auth_success(t)

SpecStop == InitStop /\ [][NextStop]_vars

\* C27: the wait for the next open is at most 3600 s and is slept in chunks
\* of at most 60 s; once the shutdown flag is set the scheduler loop sleeps
\* no further chunk and its next step ends the loop, and no _reconnect
\* thread calls connect().
CooperativeShutdown ==
    [][/\ remaining' <= FallbackWait
       /\ remaining' < remaining => remaining - remaining' <= SleepChunk /\ ~shutdown
       /\ shutdown /\ loop_pc' # loop_pc => loop_pc = "wait" /\ loop_pc' = "loop"
       /\ shutdown /\ loop_pc = "loop" /\ last_op'.op \in {"connect", "stop_websocket", "wait"} =>
              FALSE
       /\ last_op'.op = "reconnect" => ~shutdown]_vars


(***************************************************************************)
(* Calendar reload policy (SpecCal).                                        *)
(***************************************************************************)
InRefreshWindow(now) ==
    /\ HHMM(RefreshHour, 0) <= now.minute
    /\ now.minute < HHMM(RefreshHour, RefreshMinutes)

\* C28: a query reloads the calendar from persistence at once when the cache
\* has never been populated from it; a cache that has been populated is
\* reloaded only by a query evaluated inside 05:00-05:05 on a day on which
\* it has not been reloaded yet, so at most once per calendar day.
CalendarReloadPolicy ==
    [][/\ last_op'.op \in {"run_refresh", "is_trading_hours"} /\ cache_refresh_time = NoTime =>
              last_op'.symbol = "reload"
       /\ last_op'.symbol = "reload" /\ cache_refresh_time # NoTime =>
              /\ InRefreshWindow(cal_now)
              /\ cache_refresh_time.day # cal_now.day
       /\ cache_refresh_time' # cache_refresh_time =>
              /\ last_op'.symbol = "reload"
              /\ cache_refresh_time' = cal_now
              /\ cache_refresh_time # NoTime => cache_refresh_time.day # cal_now.day]_vars

\* On a later day a query at 05:00 has reloaded a cache that was populated
\* the day before.
DailyReloadWitness ==
    /\ last_op.op = "is_trading_hours"
    /\ last_op.symbol = "reload"
    /\ last_op.p = 0
    /\ cal_now.day = 1
    /\ cal_now.minute = HHMM(RefreshHour, 0)
    /\ cache_refresh_time = cal_now


(***************************************************************************)
(* The mutex: tick handling step by step, next to the scheduler loop       *)
(* (SpecLock).                                                              *)
(***************************************************************************)
\* Every step of the transport thread leaves the loop and the tables alone.
tick_frame ==
    /\ UNCHANGED <<clock, orders>>
    /\ UNCHANGED calVars
    /\ UNCHANGED connVars
    /\ UNCHANGED <<faults, startVars, stopVars>>

\* _on_message, lines 428-429 and 450-451: a tick with symbol and price
\* arrives on an authenticated transport; `with self._lock:` is entered.
tick_lock(msg) ==
    /\ \E t \in 1..MaxTransports : transports[t] = "ready"
    /\ msg.symbol # "" /\ msg.ltp # 0
    /\ tick_pc = "idle"
    /\ lock = "none"
    /\ lock' = "tick"
    /\ tick_pc' = "update"
    /\ tick_msg' = msg
    /\ last_op' = Op("tick_lock", 0, msg.symbol, msg.ltp)
    /\ UNCHANGED <<pos, risk_events, latest_prices, subscriptions, shared_data, data>>
    /\ tick_frame

\* _on_message, lines 430-437 and 452-455: the entry is written and the
\* with block left.
tick_update ==
    /\ tick_pc = "update"
    /\ latest_prices' = [latest_prices EXCEPT
                            ![tick_msg.symbol] = [ltp |-> tick_msg.ltp, timestamp |-> clock]]
    /\ lock' = "none"
    /\ tick_pc' = "save"
    /\ last_op' = Op("tick_update", 0, tick_msg.symbol, tick_msg.ltp)
    /\ UNCHANGED <<pos, risk_events, subscriptions, shared_data, tick_msg, data>>
    /\ tick_frame

\* _save_prices, line 525: `with self._lock:` is entered.
save_lock ==
    /\ tick_pc = "save"
    /\ lock = "none"
    /\ lock' = "tick"
    /\ tick_pc' = "snapshot"
    /\ last_op' = Op("save_lock", 0, tick_msg.symbol, tick_msg.ltp)
    /\ UNCHANGED <<pos, risk_events, latest_prices, subscriptions, shared_data, tick_msg, data>>
    /\ tick_frame

\* _save_prices, lines 526-530: data is built and the with block left.  The
\* subscriptions are copied; 'prices' is the map itself, and data.prices
\* records what it held at this moment.
save_snapshot ==
    /\ tick_pc = "snapshot"
    /\ data' = [prices |-> latest_prices, updated_at |-> clock, subscriptions |-> subscriptions]
    /\ lock' = "none"
    /\ tick_pc' = "dump"
    /\ last_op' = Op("save_snapshot", 0, tick_msg.symbol, tick_msg.ltp)
    /\ UNCHANGED <<pos, risk_events, latest_prices, subscriptions, shared_data, tick_msg>>
    /\ tick_frame

\* _save_prices, lines 532-536: json.dump serialises the map as it is now.
\* When the map was changed since data was built, the dump writes the
\* changed map or fails on it (the exception is caught), leaving the file as
\* it was or emptied.
save_dump ==
    /\ tick_pc = "dump"
    /\ \/ shared_data' = [data EXCEPT !.prices = latest_prices]
       \/ /\ latest_prices # data.prices
          /\ shared_data' \in {shared_data, Truncated}
    /\ tick_pc' = "risk"
    /\ last_op' = Op("publish", 0, tick_msg.symbol, tick_msg.ltp)
    /\ UNCHANGED <<pos, risk_events, latest_prices, subscriptions, lock, tick_msg, data>>
    /\ tick_frame

\* _on_message, lines 443 and 458: _check_risk_triggers.
tick_risk ==
    /\ tick_pc = "risk"
    /\ LET db == check_risk_triggers([pos |-> pos, events |-> risk_events],
                                     tick_msg.symbol, tick_msg.ltp)
       IN /\ Len(db.events) <= MaxEvents
          /\ pos' = db.pos
          /\ risk_events' = db.events
    /\ tick_pc' = "idle"
    /\ tick_msg' = NoTick
    /\ last_op' = Op("tick_risk", 0, tick_msg.symbol, tick_msg.ltp)
    /\ UNCHANGED <<latest_prices, subscriptions, shared_data, lock, data>>
    /\ tick_frame

\* The scheduler loop of a connected service next to the transport thread.
NextLock ==
    \/ \E msg \in ConnectTicks : tick_lock(msg)
    \/ tick_update
    \/ save_lock
    \/ save_snapshot
    \/ save_dump
    \/ tick_risk
    \/ run_connect
    \/ run_connected
    \/ run_trading
    \/ run_closed
    \/ \E t \in 1..MaxTransports : on_auth_success(t)
    \/ \E p \in Positions : enter_position(p)

SpecLock == InitConn /\ [][NextLock]_vars

\* The steps that write the price map or the subscription set, and the
\* steps that publish or call persistence.
TickSteps == {"tick_lock", "tick_update", "save_lock", "save_snapshot", "publish", "tick_risk"}
Mutated == latest_prices' # latest_prices \/ subscriptions' # subscriptions
External == last_op'.op \in {"publish", "tick_risk"}

\* C29: the price map and the subscription set are only mutated while the
\* mutex is held (tick updates, subscription refresh and teardown alike),
\* the snapshot that is published is the copy taken under the mutex, and the
\* mutex is not held during the publish or a persistence call.
MutexDiscipline ==
    [][/\ Mutated => lock = "tick" /\ last_op'.op \in TickSteps
       /\ last_op'.op = "publish" => shared_data' = data
       /\ External => lock = "none"]_vars


\* ---------------------------------------------------------------------
\* Concurrency of the reconnection threads and of the acknowledgement
\* ---------------------------------------------------------------------

\* The _reconnect threads that have been started and have not returned.
RunningTasks == {k \in 1..MaxTasks : tasks[k].pc # "idle"}

\* C31: at most one reconnection task is in progress at any time; a
\* transport close that happens while a _reconnect thread is running
\* (the close of the transport its own failed connect() opened included)
\* starts no second backoff sequence.
SingleReconnectTask == Cardinality(RunningTasks) <= 1

\* C32: the connection is flagged Active only on an acknowledgement of the
\* transport the service holds: connect() sets self.active, and reports
\* success, only when the transport in self.ws has been acknowledged; an
\* acknowledgement arriving late on a transport an earlier connect()
\* abandoned does not count.
AckOnHeldTransport ==
    [][/\ last_op'.op = "connect_ok" => ws # 0 /\ transports[ws] = "ready"
       /\ ~active /\ active' => ws # 0 /\ transports[ws] = "ready"]_vars


\* ---------------------------------------------------------------------
\* The market close of a connected session
\* ---------------------------------------------------------------------

\* A connected session up to and through the market close: the transport
\* thread handles ticks step by step, the connection may drop and start
\* _reconnect threads, and the scheduler loop finds the market closed; the
\* loop does not find it open again.  The callbacks of a transport run one
\* after the other on its run_forever thread (lines 371-372): a close or an
\* acknowledgement is delivered when no tick callback is running.
NextClose ==
    \/ \E msg \in ConnectTicks : tick_lock(msg)
    \/ tick_update
    \/ save_lock
    \/ save_snapshot
    \/ save_dump
    \/ tick_risk
    \/ run_closed
    \/ \E t \in 1..MaxTransports : tick_pc = "idle" /\ on_close(t)
    \/ \E t \in 1..MaxTransports : tick_pc = "idle" /\ on_auth_success(t)
    \/ \E k \in 1..MaxTasks : reconnect_attempt(k)
    \/ \E k \in 1..MaxTasks : reconnect_connected(k)

SpecClose == InitFault /\ [][NextClose]_vars

\* The loop has torn the connection down and has not observed the market
\* open since.
ClosedByLoop == ~was_trading_hours /\ ~is_trading

\* C33: from the deliberate close until the loop next observes the market
\* open, the connection is not flagged active and the price map is empty:
\* neither a _reconnect thread that was sleeping at the close nor a tick
\* callback in flight changes that.
StaysClosed ==
    ClosedByLoop => ~active /\ \A s \in Symbols : latest_prices[s] = NoPrice


\* ---------------------------------------------------------------------
\* The two calendar queries at one instant
\* ---------------------------------------------------------------------

\* How far into a minute datetime.now() is, in milliseconds: on the minute,
\* and half a second before the next one.
MillisOfMinute == {0, 59500}
QueryInstants == [day : Days, minute : TimesOfDay, millis : MillisOfMinute]

\* run(), lines 624 and 639-669, at one instant now on one calendar:
\* is_trading_hours() and, when it is False, get_time_until_market_open().
InitQuery ==
    /\ InitRiskVars
    /\ cached_sessions = <<>>
    /\ cached_holidays = {}
    /\ cached_special_sessions = {}
    /\ cache_refresh_time = NoTime
    /\ running = FALSE
    /\ is_trading = FALSE
    /\ wait_seconds = Null
    /\ cal_now \in QueryInstants
    /\ db_calendar \in Calendars
    /\ InitConnVars
    /\ InitExtVars

NextQuery ==
    \/ \E fail \in FailPoints : run_refresh(fail)
    \/ \E fail \in FailPoints : is_trading_hours(fail)
    \/ \E fail \in FailPoints : get_time_until_market_open(fail)

SpecQuery == InitQuery /\ [][NextQuery]_vars

\* An instant as milliseconds since the midnight that starts day 0.
Millis(t) == (t.day * MinutesPerDay + t.minute) * 60000 + t.millis

\* now + timedelta(seconds = s)
After(now, s) ==
    LET m == Millis(now) + s * 1000
    IN  [day |-> m \div (MinutesPerDay * 60000),
         minute |-> (m % (MinutesPerDay * 60000)) \div 60000,
         millis |-> m % 60000]

\* The instants at which a weekly session of the cache opens: its buffered
\* start on a day of its weekday that is not a closing holiday.
WeeklyOpenings(c) ==
    {t \in [day : 0..(MaxDay + 8), minute : 0..(MinutesPerDay - 1), millis : {0}] :
        /\ ~ClosingHoliday(c, t.day)
        /\ \E i \in 1..Len(c.sessions) :
              /\ c.sessions[i].day_of_week = t.day % 7
              /\ c.sessions[i].is_active
              /\ t.minute = pre_market(c.sessions[i].start_time)}

\* C34: the two calendar queries agree: get_time_until_market_open()
\* returns a strictly positive number of seconds and, when that is not the
\* 3600 fallback, is_trading_hours() is true at now plus that many seconds
\* and no weekly session opens strictly between now and that instant.
QueriesAgree ==
    Evaluated("get_time_until_market_open") =>
        /\ wait_seconds > 0
        /\ wait_seconds # FallbackWait =>
              /\ trading_hours(Cache, After(cal_now, wait_seconds))
              /\ \A t \in WeeklyOpenings(Cache) :
                    ~(Millis(cal_now) < Millis(t)
                      /\ Millis(t) < Millis(After(cal_now, wait_seconds)))

====
